---------------------------- MODULE Spec2Model ----------------------------
(***************************************************************************)
(* Pricing-and-risk engine of the options analysis tool:                   *)
(*   situational/pricing.py  gbs_price                                      *)
(*   situational/greeks.py   calculate_greeks, aggregate_portfolio_greeks,  *)
(*                           calculate_hypothetical_impact                  *)
(*                                                                         *)
(* Numbers.  A Python float is modelled as an exact rational [n, d]        *)
(* (d > 0, lowest terms): +, -, *, / are exact, so an identity that holds  *)
(* "up to floating-point tolerance" holds exactly here, and a difference   *)
(* that the model shows is one that the code's own round() calls make.     *)
(* The transcendental library functions (math.sqrt, math.log, math.exp,    *)
(* scipy.stats.norm.cdf) are decimal approximations with a fixed number of *)
(* digits.  A raised Python exception is a result whose err field names    *)
(* the exception.                                                          *)
(***************************************************************************)
EXTENDS Integers, Sequences, FiniteSets, TLC

----------------------------------------------------------------------------
(* Exact rational arithmetic (the float operators of the source).          *)
(* A value that an operator reads more than once is handed to a helper as  *)
(* an argument, so that it is written, and evaluated, once.                *)

Abs(i) == IF i < 0 THEN -i ELSE i
Sgn(i) == IF i < 0 THEN -1 ELSE 1

RECURSIVE GCD(_, _)
GCD(a, b) == IF b = 0 THEN a ELSE GCD(b, a % b)

QNorm(n, d, g) == [n |-> Sgn(d) * (n \div g), d |-> Sgn(d) * (d \div g)]
Q(n, d) == QNorm(n, d, GCD(Abs(n), Abs(d)))

Zero == [n |-> 0, d |-> 1]
One  == [n |-> 1, d |-> 1]
Int2Q(i) == [n |-> i, d |-> 1]

QNeg(a) == [n |-> -a.n, d |-> a.d]

QAddG(a, b, g) ==
    Q(a.n * (b.d \div g) + b.n * (a.d \div g), (a.d \div g) * b.d)
QAdd(a, b) == QAddG(a, b, GCD(a.d, b.d))
QSub(a, b) == QAdd(a, QNeg(b))

QMulG(a, b, g1, g2) ==
    [n |-> (a.n \div g1) * (b.n \div g2), d |-> (a.d \div g2) * (b.d \div g1)]
QMul(a, b) ==
    IF a.n = 0 \/ b.n = 0 THEN Zero
    ELSE QMulG(a, b, GCD(Abs(a.n), b.d), GCD(Abs(b.n), a.d))

\* a / b for b # 0 (the callers test b = 0 first: Python raises there)
QDiv(a, b) == QMul(a, [n |-> Sgn(b.n) * b.d, d |-> Abs(b.n)])

RECURSIVE CmpPos(_, _, _, _)
\* the sign of an/ad - bn/bd for an, bn >= 0 and ad, bd > 0, without products
CmpPos(an, ad, bn, bd) ==
    IF an \div ad # bn \div bd
    THEN (IF an \div ad < bn \div bd THEN -1 ELSE 1)
    ELSE IF an % ad = 0 /\ bn % bd = 0 THEN 0
    ELSE IF an % ad = 0 THEN -1
    ELSE IF bn % bd = 0 THEN 1
    ELSE CmpPos(bd, bn % bd, ad, an % ad)

\* the sign of a - b
QCmp(a, b) ==
    IF a.n < 0 /\ b.n >= 0 THEN -1
    ELSE IF a.n >= 0 /\ b.n < 0 THEN 1
    ELSE IF a.n >= 0 THEN CmpPos(a.n, a.d, b.n, b.d)
    ELSE CmpPos(-b.n, b.d, -a.n, a.d)

QLt(a, b) == QCmp(a, b) < 0
QLe(a, b) == QCmp(a, b) <= 0
QMax(a, b) == IF QLt(a, b) THEN b ELSE a

\* floor(quot.rem * 10^k) and the remainder over d, by long division
RECURSIVE LongDiv(_, _, _, _)
LongDiv(quot, rem, d, k) ==
    IF k = 0 THEN [q |-> quot, r |-> rem]
    ELSE LongDiv(quot * 10 + ((rem * 10) \div d), (rem * 10) % d, d, k - 1)

\* ties to even, as Python's round
HalfEven(ld, d) ==
    IF 2 * ld.r > d \/ (2 * ld.r = d /\ ld.q % 2 = 1) THEN ld.q + 1 ELSE ld.q

\* the integer nearest to x * 10^k
RoundInt(x, k) ==
    Sgn(x.n) * HalfEven(LongDiv(Abs(x.n) \div x.d, Abs(x.n) % x.d, x.d, k), x.d)

\* round(x, k)
Round(x, k) == Q(RoundInt(x, k), 10^k)

HalfUp(ld, d) == IF 2 * ld.r >= d THEN ld.q + 1 ELSE ld.q

\* an / bn to k digits; a quotient beyond 10^4 in magnitude is carried as
\* 10^4, where norm.cdf is 0 or 1 to every digit
DivInt(an, bn, k) ==
    IF Abs(an) \div Abs(bn) >= 10^4 THEN Int2Q(Sgn(an) * Sgn(bn) * 10^4)
    ELSE Q(Sgn(an) * Sgn(bn)
             * HalfUp(LongDiv(Abs(an) \div Abs(bn), Abs(an) % Abs(bn),
                              Abs(bn), k),
                      Abs(bn)),
           10^k)

\* a / b carried to k decimal digits (b # 0), both read to 7 digits: the
\* quotient d1 that feeds norm.cdf, which reads no more digits than that
DivR(a, b, k) == DivInt(RoundInt(a, 7), RoundInt(b, 7), k)

\* a - b carried to k decimal digits: d2
SubR(a, b, k) == Q(RoundInt(a, k) - RoundInt(b, k), 10^k)

MulDigits(n, d1, d2, k) ==
    ((LongDiv(n \div d1, n % d1, d1, k + 1).q \div d2) + 5) \div 10
MulSplit(n, hi, lo, k) ==
    IF hi < (2 * 10^8) \div lo THEN MulDigits(n, hi * lo, 1, k)
    ELSE MulDigits(n, hi, lo, k)
MulAbs(n, da, db, k) ==
    IF da < db THEN MulSplit(n, db, da, k) ELSE MulSplit(n, da, db, k)
MulG(a, b, g1, g2, k) ==
    Q(Sgn(a.n) * Sgn(b.n)
        * MulAbs((Abs(a.n) \div g1) * (Abs(b.n) \div g2),
                 a.d \div g2, b.d \div g1, k),
      10^k)

\* a * b carried to k decimal digits: the products with the time T that
\* feed math.exp and d1
MulR(a, b, k) ==
    IF a.n = 0 \/ b.n = 0 THEN Zero
    ELSE MulG(a, b, GCD(Abs(a.n), b.d), GCD(Abs(b.n), a.d), k)

----------------------------------------------------------------------------
(* Library functions: math.sqrt, math.log, math.exp, norm.cdf.             *)

LibDigits == 2 + 2       \* decimal digits of sqrt, log and cdf values
ExpDigits == 2 + 1       \* decimal digits of exp values
LibScale  == 10^LibDigits

\* fixed-point product at LibScale, both factors below 4 in magnitude
FMul(a, b) == Sgn(a) * Sgn(b) * ((Abs(a) * Abs(b) + LibScale \div 2) \div LibScale)

RECURSIVE ISqrt(_, _, _)
\* the largest s in lo..hi with s*s <= v
ISqrt(v, lo, hi) ==
    IF lo = hi THEN lo
    ELSE IF ((lo + hi + 1) \div 2) * ((lo + hi + 1) \div 2) <= v
         THEN ISqrt(v, (lo + hi + 1) \div 2, hi)
         ELSE ISqrt(v, lo, (lo + hi + 1) \div 2 - 1)

\* math.sqrt(v) for 0 <= v < 20
Sqrt(v) == Q(ISqrt(RoundInt(v, 2 * LibDigits), 0, 46340), LibScale)

\* 2*atanh(z) for |z| <= 1/5 : ln((1+z)/(1-z))
LnSeries(z) ==
    2 * z + (2 * FMul(FMul(z, z), z)) \div 3
          + (2 * FMul(FMul(FMul(z, z), z), FMul(z, z))) \div 5

RECURSIVE LnFix(_)
\* math.log(y) for y > 0, at LibScale; 23026 is ln(10), 4055 is ln(3/2)
LnFix(y) ==
    IF QLt(Int2Q(10), y) THEN LnFix(QMul(y, Q(1, 10))) + 23026
    ELSE IF QLt(y, Q(1, 10)) THEN LnFix(QMul(y, Int2Q(10))) - 23026
    ELSE IF QLt(Q(3, 2), y) THEN LnFix(QMul(y, Q(2, 3))) + 4055
    ELSE IF QLt(y, Q(2, 3)) THEN LnFix(QMul(y, Q(3, 2))) - 4055
    ELSE LnSeries(RoundInt(QDiv(QSub(y, One), QAdd(y, One)), LibDigits))

Ln(y) == Q(LnFix(y), LibScale)

ExpSeries(xi) ==
    LibScale + xi + FMul(xi, xi) \div 2 + FMul(FMul(xi, xi), xi) \div 6
             + FMul(FMul(FMul(xi, xi), xi), xi) \div 24

\* math.exp(v) for |v| <= 1
Exp(v) == Round(Q(ExpSeries(RoundInt(v, LibDigits)), LibScale), ExpDigits)

\* norm.cdf at 0.0, 0.1, ..., 5.1, in millionths
CdfTable == <<
    500000, 539828, 579260, 617911, 655422, 691462, 725747, 758036, 788145,
    815940, 841345, 864334, 884930, 903200, 919243, 933193, 945201, 955435,
    964070, 971283, 977250, 982136, 986097, 989276, 991802, 993790, 995339,
    996533, 997445, 998134, 998650, 999032, 999313, 999517, 999663, 999767,
    999841, 999892, 999928, 999952, 999968, 999979, 999987, 999991, 999995,
    999997, 999998, 999999, 999999, 1000000, 1000000, 1000000 >>

\* the table, linearly interpolated at xi / LibScale
CdfAt(xi) ==
    Round(Q(CdfTable[xi \div 1000 + 1]
              + ((CdfTable[xi \div 1000 + 2] - CdfTable[xi \div 1000 + 1])
                   * (xi % 1000)) \div 1000,
            10^6),
          LibDigits)

\* norm.cdf(v) for v >= 0
CdfPos(v) == IF v.n \div v.d >= 5 THEN One ELSE CdfAt(RoundInt(v, LibDigits))

\* norm.cdf(v): symmetric about 0
NormCdf(v) == IF v.n < 0 THEN QSub(One, CdfPos(QNeg(v))) ELSE CdfPos(v)

----------------------------------------------------------------------------
(* situational/pricing.py                                                  *)

Ok(v)    == [err |-> "", v |-> v]
Raise(e) == [err |-> e, v |-> Zero]

\* a put branch that takes the cdf at d2 and d1 and not at -d2 and -d1
gbs_value_unsigned(option_type, S, K, d1, d2, eq, er) ==
    IF option_type = "call"
    THEN Ok(QSub(QMul(QMul(S, eq), NormCdf(d1)),
                 QMul(QMul(K, er), NormCdf(d2))))
    ELSE Ok(QSub(QMul(QMul(K, er), NormCdf(d2)),
                 QMul(QMul(S, eq), NormCdf(d1))))

\* the two return statements of the analytic branch
gbs_value(option_type, S, K, d1, d2, eq, er) ==
    IF option_type = "call"
    THEN Ok(QSub(QMul(QMul(S, eq), NormCdf(d1)),
                 QMul(QMul(K, er), NormCdf(d2))))
    ELSE Ok(QSub(QMul(QMul(K, er), NormCdf(QNeg(d2))),
                 QMul(QMul(S, eq), NormCdf(QNeg(d1)))))

\* d2 = d1 - sigma * sqrt_T
gbs_d2(option_type, S, K, T, r, b, sigma, sqrt_T, d1) ==
    gbs_value(option_type, S, K, d1,
              SubR(d1, QMul(sigma, sqrt_T), LibDigits),
              Exp(MulR(QSub(b, r), T, 7)),
              Exp(MulR(QNeg(r), T, 7)))

\* d1 = (log(S / K) + (b + 0.5 * sigma ** 2) * T) / (sigma * sqrt_T)
gbs_d1(option_type, S, K, T, r, b, sigma, sqrt_T) ==
    gbs_d2(option_type, S, K, T, r, b, sigma, sqrt_T,
           DivR(QAdd(Ln(QDiv(S, K)),
                     MulR(QAdd(b, QMul(Q(1, 2), QMul(sigma, sigma))), T, 7)),
                QMul(sigma, sqrt_T), LibDigits))

Intrinsic(option_type, S, K) ==
    IF option_type = "call" THEN QSub(S, K) ELSE QSub(K, S)

\* a degenerate branch that returns the signed intrinsic value
gbs_price_signed(option_type, S, K, T, r, q, sigma) ==
    IF QLe(T, Zero) THEN Ok(Intrinsic(option_type, S, K))
    ELSE IF QLe(sigma, Zero) THEN Ok(Intrinsic(option_type, S, K))
    ELSE IF K.n = 0 THEN Raise("ZeroDivisionError")
    ELSE IF QLe(QDiv(S, K), Zero) THEN Raise("ValueError")
    ELSE gbs_d1(option_type, S, K, T, r, QSub(r, q), sigma, Sqrt(T))

gbs_price(option_type, S, K, T, r, q, sigma) ==
    IF QLe(T, Zero) THEN Ok(QMax(Zero, Intrinsic(option_type, S, K)))
    ELSE IF QLe(sigma, Zero) THEN Ok(QMax(Zero, Intrinsic(option_type, S, K)))
    ELSE IF K.n = 0 THEN Raise("ZeroDivisionError")
    ELSE IF QLe(QDiv(S, K), Zero) THEN Raise("ValueError")
    ELSE gbs_d1(option_type, S, K, T, r, QSub(r, q), sigma, Sqrt(T))

----------------------------------------------------------------------------
(* situational/greeks.py: per-position Greeks                              *)

MULTIPLIER == 100   \* _MULTIPLIER, shares per contract

\* a reduced time without the floor
ReducedTime(T, dt) == QSub(T, dt)

\* max(T - dt, 1e-8); T - dt is formed only when it is positive
FlooredTime(T, dt) ==
    IF QLe(T, dt) THEN Q(1, 10^8) ELSE QMax(QSub(T, dt), Q(1, 10^8))

\* the exception of the first call that raises, "" when none does
FirstErr(calls) ==
    IF \A i \in 1..Len(calls) : calls[i].err = "" THEN ""
    ELSE calls[CHOOSE i \in 1..Len(calls) :
                  /\ calls[i].err # ""
                  /\ \A j \in 1..(i - 1) : calls[j].err = ""].err

\* the differences and the returned dict
greeks_result(mult, dS, dSigma, base, up_s, dn_s, up_v, dn_v, fwd_t) ==
    IF FirstErr(<<base, up_s, dn_s, up_v, dn_v, fwd_t>>) # ""
    THEN [err |-> FirstErr(<<base, up_s, dn_s, up_v, dn_v, fwd_t>>)]
    ELSE [err            |-> "",
          delta          |-> Round(QDiv(QSub(up_s.v, dn_s.v),
                                        QMul(Int2Q(2), dS)), 4),
          gamma          |-> Round(QDiv(QAdd(QSub(up_s.v,
                                                  QMul(Int2Q(2), base.v)),
                                             dn_s.v),
                                        QMul(dS, dS)), 6),
          theta_per_day  |-> Round(QMul(QSub(fwd_t.v, base.v), mult), 2),
          vega_per_pct   |-> Round(QMul(QMul(QDiv(QSub(up_v.v, dn_v.v),
                                                  QMul(Int2Q(2), dSigma)),
                                             mult),
                                        Q(1, 100)), 2),
          option_price   |-> Round(base.v, 4),
          position_value |-> Round(QMul(base.v, mult), 2)]

\* repricings whose lower spot is the spot itself
greeks_probes_one_sided(option_type, S, K, T, r, q, sigma, mult, dS, dSigma, dT) ==
    greeks_result(mult, dS, dSigma,
        gbs_price(option_type, S, K, T, r, q, sigma),
        gbs_price(option_type, QAdd(S, dS), K, T, r, q, sigma),
        gbs_price(option_type, S, K, T, r, q, sigma),
        gbs_price(option_type, S, K, T, r, q, QAdd(sigma, dSigma)),
        gbs_price(option_type, S, K, T, r, q, QSub(sigma, dSigma)),
        gbs_price(option_type, S, K, FlooredTime(T, dT), r, q, sigma))

\* the six repricings
greeks_probes(option_type, S, K, T, r, q, sigma, mult, dS, dSigma, dT) ==
    greeks_result(mult, dS, dSigma,
        gbs_price(option_type, S, K, T, r, q, sigma),
        gbs_price(option_type, QAdd(S, dS), K, T, r, q, sigma),
        gbs_price(option_type, QSub(S, dS), K, T, r, q, sigma),
        gbs_price(option_type, S, K, T, r, q, QAdd(sigma, dSigma)),
        gbs_price(option_type, S, K, T, r, q, QSub(sigma, dSigma)),
        gbs_price(option_type, S, K, FlooredTime(T, dT), r, q, sigma))

\* a body whose mult is that of one contract whatever contracts is
greeks_body_one_contract(option_type, S, K, T, r, q, sigma, contracts) ==
    greeks_probes(option_type, S, K, T, r, q, sigma,
                  Int2Q(MULTIPLIER),
                  QMax(QMul(S, Q(1, 100)), Q(1, 100)),
                  Q(1, 1000),
                  Q(1, 365))

\* the body of calculate_greeks: mult and the perturbation sizes
greeks_body(option_type, S, K, T, r, q, sigma, contracts) ==
    greeks_probes(option_type, S, K, T, r, q, sigma,
                  Int2Q(contracts * MULTIPLIER),
                  QMax(QMul(S, Q(1, 100)), Q(1, 100)),
                  Q(1, 1000),
                  Q(1, 365))

----------------------------------------------------------------------------
(* The inputs the callers draw from.                                       *)

MaxPositions == 2     \* longest list of existing positions

OptionTypes == {"call", "put"}
Rate        == Q(1, 25)
Yield       == Q(1, 100)
SpyPrices   == {Int2Q(-500), Zero, Int2Q(450), Int2Q(500)}

----------------------------------------------------------------------------
(* Position dicts.  A dict is a record of values plus has, the set of its  *)
(* keys: d[k] raises KeyError when k is not in has, d.get(k, v) gives v.   *)

OptionKeys == {"position_type", "ticker", "option_type", "S", "K", "T", "r",
               "q", "sigma", "contracts", "beta"}
EquityKeys == {"position_type", "ticker", "shares", "S", "beta"}

OptionLeg(option_type, contracts, beta, absent) ==
    [has |-> OptionKeys \ absent, position_type |-> "option", ticker |-> "AAA",
     option_type |-> option_type, S |-> Int2Q(100), K |-> Int2Q(100),
     T |-> Q(1, 4), r |-> Rate, q |-> Yield, sigma |-> Q(3, 10),
     contracts |-> contracts, beta |-> beta, shares |-> 0, expiry |-> ""]

EquityLeg(shares, beta, absent) ==
    [has |-> EquityKeys \ absent, position_type |-> "equity", ticker |-> "BBB",
     option_type |-> "", S |-> Int2Q(50), K |-> Zero, T |-> Zero, r |-> Zero,
     q |-> Zero, sigma |-> Zero, contracts |-> 0, beta |-> beta,
     shares |-> shares, expiry |-> ""]

\* complete legs, and legs that lack one key
Legs ==
    {EquityLeg(100, Q(6, 5), a) : a \in {{}, {"beta"}}}
    \cup {EquityLeg(200, Q(1, 2), {})}
    \cup {OptionLeg("call", 1, Q(6, 5), {}), OptionLeg("put", 2, Q(1, 2), {})}
    \cup {OptionLeg("call", 1, Q(6, 5), {k}) :
             k \in {"K", "T", "sigma", "beta"}}

\* the arguments of calculate_greeks that the option legs carry
GreeksArgs ==
    {<<leg.option_type, leg.S, leg.K, leg.T, leg.r, leg.q, leg.sigma,
       leg.contracts>> : leg \in {l \in Legs : l.position_type = "option"}}

\* calculate_greeks over GreeksArgs, evaluated once
GreeksTable == [a \in GreeksArgs |->
                  greeks_body(a[1], a[2], a[3], a[4], a[5], a[6], a[7], a[8])]

calculate_greeks(option_type, S, K, T, r, q, sigma, contracts) ==
    IF <<option_type, S, K, T, r, q, sigma, contracts>> \in GreeksArgs
    THEN GreeksTable[<<option_type, S, K, T, r, q, sigma, contracts>>]
    ELSE greeks_body(option_type, S, K, T, r, q, sigma, contracts)

\* a lookup that reads every key with dict.get and so misses none
FirstMissingLenient(dict, keys) == ""

\* the first key of keys that dict lacks, "" when it has them all
FirstMissing(dict, keys) ==
    IF \A i \in 1..Len(keys) : keys[i] \in dict.has THEN ""
    ELSE keys[CHOOSE i \in 1..Len(keys) :
                 /\ keys[i] \notin dict.has
                 /\ \A j \in 1..(i - 1) : keys[j] \in dict.has]

----------------------------------------------------------------------------
(* situational/greeks.py: portfolio aggregation                            *)

Beta(pos)   == IF "beta" \in pos.has THEN pos.beta ELSE One      \* pos.get
Ticker(pos) == IF "ticker" \in pos.has THEN pos.ticker ELSE "?"  \* pos.get

\* the equity branch: the running totals and the detail entry
EquityTerms(acc, pos, bw_delta) ==
    [err            |-> "",
     total_bw_delta |-> QAdd(acc.total_bw_delta, bw_delta),
     total_bw_gamma |-> QAdd(acc.total_bw_gamma, Zero),
     total_theta    |-> acc.total_theta,
     total_vega     |-> acc.total_vega,
     details |-> Append(acc.details,
        [ticker        |-> Ticker(pos),
         position_type |-> "equity",
         shares        |-> pos.shares,
         delta         |-> One,
         gamma         |-> Zero,
         theta_per_day |-> Zero,
         vega_per_pct  |-> Zero,
         bw_delta      |-> Round(bw_delta, 4),
         bw_gamma      |-> Zero])]

\* an equity bw_delta that leaves beta out
EquityBwDeltaUnweighted(pos, spy_price) ==
    QDiv(QMul(Int2Q(pos.shares), pos.S), spy_price)

\* bw_delta of an equity leg
EquityBwDelta(pos, spy_price) ==
    QDiv(QMul(QMul(Int2Q(pos.shares), pos.S), Beta(pos)), spy_price)

\* bw_delta and bw_gamma of an option leg with Greeks g
OptionBwDelta(pos, g, spy_price) ==
    QMul(QDiv(QMul(QMul(g.delta, pos.S), Beta(pos)), spy_price),
         Int2Q(pos.contracts * MULTIPLIER))
\* an option bw_gamma in which beta is not squared
OptionBwGammaLinear(pos, g, spy_price) ==
    QMul(QDiv(QMul(QMul(g.gamma, QMul(pos.S, pos.S)), Beta(pos)),
              QMul(spy_price, spy_price)),
         Int2Q(pos.contracts * MULTIPLIER))

OptionBwGamma(pos, g, spy_price) ==
    QMul(QDiv(QMul(QMul(g.gamma, QMul(pos.S, pos.S)),
                   QMul(Beta(pos), Beta(pos))),
              QMul(spy_price, spy_price)),
         Int2Q(pos.contracts * MULTIPLIER))

\* option totals in which theta and vega are weighted by beta as well
OptionTermsWeighted(acc, pos, g, bw_delta, bw_gamma) ==
    [err            |-> "",
     total_bw_delta |-> QAdd(acc.total_bw_delta, bw_delta),
     total_bw_gamma |-> QAdd(acc.total_bw_gamma, bw_gamma),
     total_theta    |-> QAdd(acc.total_theta, QMul(g.theta_per_day, Beta(pos))),
     total_vega     |-> QAdd(acc.total_vega, QMul(g.vega_per_pct, Beta(pos))),
     details |-> Append(acc.details,
        [ticker        |-> Ticker(pos),
         position_type |-> "option",
         option_type   |-> pos.option_type,
         strike        |-> pos.K,
         contracts     |-> pos.contracts,
         delta         |-> g.delta,
         gamma         |-> g.gamma,
         theta_per_day |-> g.theta_per_day,
         vega_per_pct  |-> g.vega_per_pct,
         bw_delta      |-> Round(bw_delta, 4),
         bw_gamma      |-> Round(bw_gamma, 6)])]

\* the option branch after the Greeks: the running totals and the detail
OptionTerms(acc, pos, g, bw_delta, bw_gamma) ==
    [err            |-> "",
     total_bw_delta |-> QAdd(acc.total_bw_delta, bw_delta),
     total_bw_gamma |-> QAdd(acc.total_bw_gamma, bw_gamma),
     total_theta    |-> QAdd(acc.total_theta, g.theta_per_day),
     total_vega     |-> QAdd(acc.total_vega, g.vega_per_pct),
     details |-> Append(acc.details,
        [ticker        |-> Ticker(pos),
         position_type |-> "option",
         option_type   |-> pos.option_type,
         strike        |-> pos.K,
         contracts     |-> pos.contracts,
         delta         |-> g.delta,
         gamma         |-> g.gamma,
         theta_per_day |-> g.theta_per_day,
         vega_per_pct  |-> g.vega_per_pct,
         bw_delta      |-> Round(bw_delta, 4),
         bw_gamma      |-> Round(bw_gamma, 6)])]

OptionBranch(acc, pos, spy_price, g) ==
    IF g.err # "" THEN [err |-> g.err]
    ELSE IF spy_price.n = 0 THEN [err |-> "ZeroDivisionError"]
    ELSE OptionTerms(acc, pos, g, OptionBwDelta(pos, g, spy_price),
                     OptionBwGamma(pos, g, spy_price))

\* the loop body of aggregate_portfolio_greeks: the totals and details
\* after the leg pos, or the exception it raises
AggregateLeg(acc, pos, spy_price) ==
    IF "position_type" \in pos.has /\ pos.position_type = "equity"
    THEN
      IF FirstMissing(pos, <<"shares", "S">>) # "" THEN [err |-> "KeyError"]
      ELSE IF spy_price.n = 0 THEN [err |-> "ZeroDivisionError"]
      ELSE EquityTerms(acc, pos, EquityBwDelta(pos, spy_price))
    ELSE
      IF FirstMissing(pos, <<"option_type", "S", "K", "T", "r", "q", "sigma",
                             "contracts">>) # ""
      THEN [err |-> "KeyError"]
      ELSE OptionBranch(acc, pos, spy_price,
               calculate_greeks(pos.option_type, pos.S, pos.K, pos.T,
                                pos.r, pos.q, pos.sigma, pos.contracts))

\* the totals and the details before the loop
EmptyTotals ==
    [err |-> "", total_bw_delta |-> Zero, total_bw_gamma |-> Zero,
     total_theta |-> Zero, total_vega |-> Zero, details |-> <<>>]

RECURSIVE AggregateLoop(_, _, _, _)
\* the for loop from leg i on; it stops at the first leg that raises
AggregateLoop(positions, spy_price, i, acc) ==
    IF acc.err # "" \/ i > Len(positions) THEN acc
    ELSE AggregateLoop(positions, spy_price, i + 1,
                       AggregateLeg(acc, positions[i], spy_price))

\* a summary whose beta-weighted fields are rounded like theta and vega
AggregateResultCoarse(spy_price, tot) ==
    IF tot.err # "" THEN [err |-> tot.err]
    ELSE [err            |-> "",
          spy_price_used |-> Round(spy_price, 2),
          summary |->
            [beta_weighted_delta |-> Round(tot.total_bw_delta, 2),
             beta_weighted_gamma |-> Round(tot.total_bw_gamma, 2),
             total_theta_per_day |-> Round(tot.total_theta, 2),
             total_vega_per_pct  |-> Round(tot.total_vega, 2)],
          positions |-> tot.details]

\* the returned dict
AggregateResult(spy_price, tot) ==
    IF tot.err # "" THEN [err |-> tot.err]
    ELSE [err            |-> "",
          spy_price_used |-> Round(spy_price, 2),
          summary |->
            [beta_weighted_delta |-> Round(tot.total_bw_delta, 4),
             beta_weighted_gamma |-> Round(tot.total_bw_gamma, 6),
             total_theta_per_day |-> Round(tot.total_theta, 2),
             total_vega_per_pct  |-> Round(tot.total_vega, 2)],
          positions |-> tot.details]

aggregate_portfolio_greeks(positions, spy_price) ==
    AggregateResult(spy_price, AggregateLoop(positions, spy_price, 1, EmptyTotals))

----------------------------------------------------------------------------
(* situational/greeks.py: hypothetical addition                            *)

\* a difference taken the other way round
diff_reversed(after_summary, before_summary) ==
    [k \in DOMAIN after_summary |->
        Round(QSub(before_summary[k], after_summary[k]), 6)]

\* _diff
diff(after_summary, before_summary) ==
    [k \in DOMAIN after_summary |->
        Round(QSub(after_summary[k], before_summary[k]), 6)]

\* the returned dict
ImpactResult(new_position, spy_price, before, after, isolated) ==
    IF before.err # "" THEN [err |-> before.err]
    ELSE IF after.err # "" THEN [err |-> after.err]
    ELSE IF isolated.err # "" THEN [err |-> isolated.err]
    ELSE IF FirstMissing(new_position, <<"option_type", "K", "contracts">>) # ""
    THEN [err |-> "KeyError"]
    ELSE
      [err            |-> "",
       spy_price_used |-> Round(spy_price, 2),
       new_position   |->
         [ticker      |-> Ticker(new_position),
          option_type |-> new_position.option_type,
          strike      |-> new_position.K,
          expiry      |-> IF "expiry" \in new_position.has
                          THEN new_position.expiry ELSE "",
          contracts   |-> new_position.contracts,
          greeks      |->
            [delta         |-> isolated.positions[1].delta,
             gamma         |-> isolated.positions[1].gamma,
             theta_per_day |-> isolated.positions[1].theta_per_day,
             vega_per_pct  |-> isolated.positions[1].vega_per_pct,
             bw_delta      |-> isolated.positions[1].bw_delta,
             bw_gamma      |-> isolated.positions[1].bw_gamma]],
       portfolio |->
         [before |-> before.summary,
          after  |-> after.summary,
          change |-> diff(after.summary, before.summary)]]

\* an after-summary patched together from the before-summary and the new
\* leg's own summary
PatchedAfter(before, isolated) ==
    IF before.err # "" THEN before
    ELSE IF isolated.err # "" THEN isolated
    ELSE [err |-> "",
          summary |-> [k \in DOMAIN before.summary |->
                          QAdd(before.summary[k], isolated.summary[k])]]

hypothetical_impact_patched(existing_positions, new_position, spy_price) ==
    ImpactResult(new_position, spy_price,
        aggregate_portfolio_greeks(existing_positions, spy_price),
        PatchedAfter(aggregate_portfolio_greeks(existing_positions, spy_price),
                     aggregate_portfolio_greeks(<<new_position>>, spy_price)),
        aggregate_portfolio_greeks(<<new_position>>, spy_price))

calculate_hypothetical_impact(existing_positions, new_position, spy_price) ==
    ImpactResult(new_position, spy_price,
        aggregate_portfolio_greeks(existing_positions, spy_price),
        aggregate_portfolio_greeks(existing_positions \o <<new_position>>,
                                   spy_price),
        aggregate_portfolio_greeks(<<new_position>>, spy_price))

----------------------------------------------------------------------------
(* situational/greeks.py: P&L decomposition of one position                *)

\* a record whose total_approx is the sum of the rounded terms
PnlRecordOfRounded(delta_pnl, gamma_pnl, theta_pnl, vega_pnl, total_exact, price_move, iv_change_abs, days_elapsed) ==
    [err          |-> "",
     inputs       |-> [price_move    |-> Round(price_move, 4),
                       iv_change_pct |->
                           Round(QMul(iv_change_abs, Int2Q(100)), 2),
                       days_elapsed  |-> days_elapsed],
     breakdown    |-> [delta |-> Round(delta_pnl, 2),
                       gamma |-> Round(gamma_pnl, 2),
                       theta |-> Round(theta_pnl, 2),
                       vega  |-> Round(vega_pnl, 2)],
     total_approx |-> QAdd(QAdd(QAdd(Round(delta_pnl, 2), Round(gamma_pnl, 2)),
                                Round(theta_pnl, 2)),
                           Round(vega_pnl, 2)),
     total_exact  |-> Round(total_exact, 2),
     residual     |->
         Round(QSub(total_exact,
                    QAdd(QAdd(QAdd(delta_pnl, gamma_pnl), theta_pnl),
                         vega_pnl)), 2)]

\* the returned dict, from the unrounded terms
PnlRecord(delta_pnl, gamma_pnl, theta_pnl, vega_pnl, total_exact, price_move, iv_change_abs, days_elapsed) ==
    [err          |-> "",
     inputs       |-> [price_move    |-> Round(price_move, 4),
                       iv_change_pct |->
                           Round(QMul(iv_change_abs, Int2Q(100)), 2),
                       days_elapsed  |-> days_elapsed],
     breakdown    |-> [delta |-> Round(delta_pnl, 2),
                       gamma |-> Round(gamma_pnl, 2),
                       theta |-> Round(theta_pnl, 2),
                       vega  |-> Round(vega_pnl, 2)],
     total_approx |->
         Round(QAdd(QAdd(QAdd(delta_pnl, gamma_pnl), theta_pnl), vega_pnl), 2),
     total_exact  |-> Round(total_exact, 2),
     residual     |->
         Round(QSub(total_exact,
                    QAdd(QAdd(QAdd(delta_pnl, gamma_pnl), theta_pnl),
                         vega_pnl)), 2)]

\* delta_pnl, gamma_pnl, theta_pnl, vega_pnl and total_exact
pnl_terms(greeks, exact_price, mult, entry_price, price_move, iv_change_abs, days_elapsed) ==
    IF greeks.err # "" THEN [err |-> greeks.err]
    ELSE IF exact_price.err # "" THEN [err |-> exact_price.err]
    ELSE PnlRecord(
        QMul(QMul(greeks.delta, price_move), mult),
        QMul(QMul(QMul(Q(1, 2), greeks.gamma), QMul(price_move, price_move)),
             mult),
        QMul(greeks.theta_per_day, Int2Q(days_elapsed)),
        QMul(greeks.vega_per_pct, QMul(iv_change_abs, Int2Q(100))),
        QMul(QSub(exact_price.v, entry_price), mult),
        price_move, iv_change_abs, days_elapsed)

\* greeks, then the reprice at S_new, T_new and sigma_new
pnl_decomposition(option_type, S, K, T, r, q, sigma, contracts, entry_price, price_move, iv_change_abs, days_elapsed) ==
    pnl_terms(calculate_greeks(option_type, S, K, T, r, q, sigma, contracts),
              gbs_price(option_type, QAdd(S, price_move), K,
                        FlooredTime(T, Q(days_elapsed, 365)), r, q,
                        QMax(QAdd(sigma, iv_change_abs), Q(1, 1000))),
              Int2Q(contracts * MULTIPLIER), entry_price, price_move,
              iv_change_abs, days_elapsed)

----------------------------------------------------------------------------
(* situational/greeks.py: scenario analysis                                *)

\* int(x): truncation towards zero
TruncInt(x) == Sgn(x.n) * (Abs(x.n) \div x.d)

\* price_moves
PriceMoves == << Q(-15, 100), Q(-10, 100), Q(-5, 100), Zero, Q(5, 100),
                 Q(10, 100), Q(15, 100) >>

\* iv_regimes, in the order of the dict: the label and the factor on sigma
IvRegimes == << [label |-> "iv_crush",     factor |-> Q(70, 100)],
                [label |-> "iv_unchanged", factor |-> One],
                [label |-> "iv_expansion", factor |-> Q(130, 100)] >>

\* the moves of the decomposition
DecompMoves == << Q(-5, 100), Zero, Q(5, 100) >>

\* label: the sign of the move in words, then abs(int(dm * 100))
DecompLabel(dm) ==
    (IF dm.n > 0 THEN "plus" ELSE IF dm.n < 0 THEN "minus" ELSE "flat")
        \o "_" \o ToString(Abs(TruncInt(QMul(dm, Int2Q(100))))) \o "pct"

DecompLabels == [k \in 1..Len(DecompMoves) |-> DecompLabel(DecompMoves[k])]

\* prices with the regimes in the opposite order: the crush column at the
\* expansion volatility
GridPricesRegimesSwapped(option_type, S, K, T_fwd, r, q, sigma) ==
    [i \in 1..Len(PriceMoves) |->
        [j \in 1..Len(IvRegimes) |->
            gbs_price(option_type, QMul(S, QAdd(One, PriceMoves[i])), K,
                      T_fwd, r, q,
                      QMul(sigma, IvRegimes[Len(IvRegimes) + 1 - j].factor))]]

\* new_price of every cell: row i is price move i, column j is regime j
GridPrices(option_type, S, K, T_fwd, r, q, sigma) ==
    [i \in 1..Len(PriceMoves) |->
        [j \in 1..Len(IvRegimes) |->
            gbs_price(option_type, QMul(S, QAdd(One, PriceMoves[i])), K,
                      T_fwd, r, q, QMul(sigma, IvRegimes[j].factor))]]

\* exact_p of every decomposition entry
ExactPrices(option_type, S, K, T_fwd, r, q, sigma) ==
    [k \in 1..Len(DecompMoves) |->
        gbs_price(option_type, QMul(S, QAdd(One, DecompMoves[k])), K, T_fwd,
                  r, q, sigma)]

\* the repricings in the order the function makes them
ScenarioCalls(prices, exacts) ==
    prices[1] \o prices[2] \o prices[3] \o prices[4] \o prices[5]
        \o prices[6] \o prices[7] \o exacts

\* a cell of the grid
ScenarioCell(new_price, entry_price, mult) ==
    Round(QMul(QSub(new_price.v, entry_price), mult), 2)

\* a row of the grid
ScenarioRow(dm, cells, entry_price, mult) ==
    [price_move_pct |-> TruncInt(QMul(dm, Int2Q(100))),
     iv_crush       |-> ScenarioCell(cells[1], entry_price, mult),
     iv_unchanged   |-> ScenarioCell(cells[2], entry_price, mult),
     iv_expansion   |-> ScenarioCell(cells[3], entry_price, mult)]

\* an entry whose total_approx is the sum of the rounded terms
DecompRecordOfRounded(d_pnl, g_pnl, th_pnl, exact) ==
    [delta        |-> Round(d_pnl, 2),
     gamma        |-> Round(g_pnl, 2),
     theta        |-> Round(th_pnl, 2),
     vega         |-> Zero,
     total_approx |-> QAdd(QAdd(Round(d_pnl, 2), Round(g_pnl, 2)),
                           Round(th_pnl, 2)),
     total_exact  |-> Round(exact, 2)]

\* an entry of the decomposition, from the unrounded terms
DecompRecord(d_pnl, g_pnl, th_pnl, exact) ==
    [delta        |-> Round(d_pnl, 2),
     gamma        |-> Round(g_pnl, 2),
     theta        |-> Round(th_pnl, 2),
     vega         |-> Zero,
     total_approx |-> Round(QAdd(QAdd(d_pnl, g_pnl), th_pnl), 2),
     total_exact  |-> Round(exact, 2)]

\* d_pnl, g_pnl, th_pnl and exact at the move dS
DecompEntry(greeks, dS, exact_p, entry_price, mult, days_forward) ==
    DecompRecord(QMul(QMul(greeks.delta, dS), mult),
                 QMul(QMul(QMul(Q(1, 2), greeks.gamma), QMul(dS, dS)), mult),
                 QMul(greeks.theta_per_day, Int2Q(days_forward)),
                 QMul(QSub(exact_p.v, entry_price), mult))

\* a grid with the rows in descending order of the move
ScenarioGridDescending(prices, entry_price, mult) ==
    [i \in 1..Len(PriceMoves) |->
        ScenarioRow(PriceMoves[Len(PriceMoves) + 1 - i],
                    prices[Len(PriceMoves) + 1 - i], entry_price, mult)]

\* scenario_grid
ScenarioGrid(prices, entry_price, mult) ==
    [i \in 1..Len(PriceMoves) |->
        ScenarioRow(PriceMoves[i], prices[i], entry_price, mult)]

\* the returned dict, or the exception of the first repricing that raises
scenario_result(greeks, prices, exacts, S, entry_price, mult, days_forward) ==
    IF greeks.err # "" THEN [err |-> greeks.err]
    ELSE IF FirstErr(ScenarioCalls(prices, exacts)) # ""
    THEN [err |-> FirstErr(ScenarioCalls(prices, exacts))]
    ELSE [err               |-> "",
          greeks            |-> greeks,
          scenario_grid     |-> ScenarioGrid(prices, entry_price, mult),
          pnl_decomposition |->
              [l \in {DecompLabels[k] : k \in 1..Len(DecompMoves)} |->
                  DecompEntry(greeks,
                      QMul(S, DecompMoves[CHOOSE k \in 1..Len(DecompMoves) :
                                              DecompLabels[k] = l]),
                      exacts[CHOOSE k \in 1..Len(DecompMoves) :
                                 DecompLabels[k] = l],
                      entry_price, mult, days_forward)],
          days_forward      |-> days_forward]

\* the repricings at T_fwd
scenario_at(option_type, S, K, T, r, q, sigma, contracts, entry_price, days_forward, T_fwd) ==
    scenario_result(
        calculate_greeks(option_type, S, K, T, r, q, sigma, contracts),
        GridPrices(option_type, S, K, T_fwd, r, q, sigma),
        ExactPrices(option_type, S, K, T_fwd, r, q, sigma),
        S, entry_price, Int2Q(contracts * MULTIPLIER), days_forward)

run_scenario_analysis(option_type, S, K, T, r, q, sigma, contracts, entry_price, days_forward) ==
    scenario_at(option_type, S, K, T, r, q, sigma, contracts, entry_price,
                days_forward, FlooredTime(T, Q(days_forward, 365)))

----------------------------------------------------------------------------
(* situational/data.py: the live data behind the tools.  live is what the  *)
(* market answers while a tool runs: fetch is the exception a request for  *)
(* a ticker's info raises ("" when it answers), price the spot of the      *)
(* underlying, beta its beta, spy the last price of SPY, today the date.   *)

\* str.upper over the tickers in use
Upper(ticker) == IF ticker = "aaa" THEN "AAA" ELSE ticker

\* the dates in use and their day numbers
Calendar == [d \in {"2026-01-01", "2026-03-15"} |-> IF d = "2026-01-01" THEN 0 ELSE 31 + 28 + 14]

\* datetime.strptime(s, "%Y-%m-%d").date()
ParseDate(s) ==
    IF s \in DOMAIN Calendar THEN [err |-> "", day |-> Calendar[s]]
    ELSE [err |-> "ValueError", day |-> 0]

\* (expiry - today).days
DaysTo(expiry, live) == ParseDate(expiry).day - ParseDate(live.today).day

\* max(days / 365, 1e-8), or the ValueError of an expiry that is no date
TimeToExpiry(expiry, live) ==
    IF ParseDate(expiry).err # "" THEN Raise(ParseDate(expiry).err)
    ELSE Ok(QMax(Q(DaysTo(expiry, live), 365), Q(1, 10^8)))

get_underlying_data(ticker, live) ==
    IF live.fetch # "" THEN [err |-> live.fetch]
    ELSE [err            |-> "",
          ticker         |-> Upper(ticker),
          price          |-> Round(live.price, 4),
          beta           |-> live.beta,
          dividend_yield |-> Yield,
          sector         |-> "Technology",
          industry       |-> "Unknown",
          risk_free_rate |-> Rate]

\* the strikes the chain quotes and the expiries it lists
QuotedStrikes  == <<Int2Q(80), Int2Q(100), Int2Q(120)>>
ListedExpiries == {"2026-03-15"}

\* the quoted strikes with lo <= strike <= hi
InRange(lo, hi) == SelectSeq(QuotedStrikes, LAMBDA k : QLe(lo, k) /\ QLe(k, hi))

\* the rows of one side of the chain; a call is in the money below the spot
ChainRows(strikes, spot, is_call) ==
    [i \in 1..Len(strikes) |->
        [strike |-> strikes[i],
         bid    |-> Int2Q(5),
         ask    |-> Q(11, 2),
         iv     |-> Q(3, 10),
         volume |-> 10,
         oi     |-> 100,
         itm    |-> IF is_call THEN QLt(strikes[i], spot)
                    ELSE QLt(spot, strikes[i])]]

\* the returned dict for the spot and the strike range lo..hi
ChainResult(ticker, max_dte, spot, lo, hi, live) ==
    [err           |-> "",
     ticker        |-> Upper(ticker),
     current_price |-> Round(spot, 4),
     strike_range  |-> [low |-> Round(lo, 4), high |-> Round(hi, 4)],
     chain         |->
        [e \in {x \in ListedExpiries : DaysTo(x, live) <= max_dte} |->
            [days_to_expiry |-> DaysTo(e, live),
             calls          |-> ChainRows(InRange(lo, hi), spot, TRUE),
             puts           |-> ChainRows(InRange(lo, hi), spot, FALSE)]]]

get_option_chain(ticker, max_dte, strike_range_pct, live) ==
    IF live.fetch # "" THEN [err |-> live.fetch]
    ELSE ChainResult(ticker, max_dte, live.price,
                     QMul(live.price, QSub(One, strike_range_pct)),
                     QMul(live.price, QAdd(One, strike_range_pct)), live)

get_events(ticker, live) ==
    IF live.fetch # "" THEN [err |-> live.fetch]
    ELSE [err |-> "", ticker |-> Upper(ticker), events |-> live.events]

----------------------------------------------------------------------------
(* situational/tools.py.  A tool's outcome is the dict it returns, with    *)
(* err = "", or [err |-> e] for the exception e it raises.                 *)

\* the returned dict of _calculate_position_analysis
PositionAnalysis(option_type, ticker, strike, expiry, contracts, und, analysis) ==
    IF analysis.err # "" THEN [err |-> analysis.err]
    ELSE analysis @@
         [ticker      |-> Upper(ticker),
          option_type |-> option_type,
          strike      |-> strike,
          expiry      |-> expiry,
          contracts   |-> contracts,
          underlying  |-> [price  |-> und.price,
                           beta   |-> und.beta,
                           sector |-> und.sector]]

\* _calculate_position_analysis once the underlying is fetched
AnalysisWith(option_type, ticker, strike, expiry, contracts, entry_price, sigma, days_forward, und, T) ==
    IF und.err # "" THEN [err |-> und.err]
    ELSE IF T.err # "" THEN [err |-> T.err]
    ELSE PositionAnalysis(option_type, ticker, strike, expiry, contracts, und,
             run_scenario_analysis(option_type, und.price, strike, T.v,
                 und.risk_free_rate, und.dividend_yield, sigma, contracts,
                 entry_price, days_forward))

calculate_position_analysis(option_type, ticker, strike, expiry, contracts, entry_price, sigma, days_forward, live) ==
    AnalysisWith(option_type, ticker, strike, expiry, contracts, entry_price,
                 sigma, days_forward, get_underlying_data(ticker, live),
                 TimeToExpiry(expiry, live))

\* float(yf.Ticker("SPY").fast_info["last_price"])
SpyPrice(live) == IF live.fetch # "" THEN Raise(live.fetch) ELSE Ok(live.spy)

\* pos.get("beta") or und["beta"]
BetaOr(pos, und) ==
    IF "beta" \in pos.has /\ pos.beta.n # 0 THEN pos.beta ELSE und.beta

\* the enriched dict of an option position
EnrichedOption(pos, und, T) ==
    [pos EXCEPT !.has  = @ \cup {"S", "K", "T", "r", "q", "beta"},
                !.S    = und.price,
                !.K    = pos.strike,
                !.T    = T,
                !.r    = und.risk_free_rate,
                !.q    = und.dividend_yield,
                !.beta = BetaOr(pos, und)]

\* the enriched dict of an equity position
EnrichedEquity(pos, und) ==
    [pos EXCEPT !.has  = @ \cup {"S", "beta"},
                !.S    = und.price,
                !.beta = BetaOr(pos, und)]

\* the enrichment of pos after the fetch of its underlying; equity_aware
\* tells _enrich of dispatch from the loop body of _get_portfolio_greeks
EnrichWith(pos, und, live, equity_aware) ==
    IF und.err # "" THEN Raise(und.err)
    ELSE IF equity_aware /\ "position_type" \in pos.has /\ pos.position_type = "equity"
    THEN Ok(EnrichedEquity(pos, und))
    ELSE IF "expiry" \notin pos.has THEN Raise("KeyError")
    ELSE IF TimeToExpiry(pos.expiry, live).err # "" THEN Raise("ValueError")
    ELSE IF "strike" \notin pos.has THEN Raise("KeyError")
    ELSE Ok(EnrichedOption(pos, und, TimeToExpiry(pos.expiry, live).v))

Enrich(pos, live, equity_aware) ==
    IF "ticker" \notin pos.has THEN Raise("KeyError")
    ELSE EnrichWith(pos, get_underlying_data(pos.ticker, live), live, equity_aware)

RECURSIVE EnrichAll(_, _, _, _, _)
\* the enriched list from position i on; it stops at the first that raises
EnrichAll(positions, live, equity_aware, i, acc) ==
    IF acc.err # "" \/ i > Len(positions) THEN acc
    ELSE EnrichAll(positions, live, equity_aware, i + 1,
             IF Enrich(positions[i], live, equity_aware).err # ""
             THEN Raise(Enrich(positions[i], live, equity_aware).err)
             ELSE Ok(Append(acc.v, Enrich(positions[i], live, equity_aware).v)))

\* _get_portfolio_greeks after the SPY quote and the enrichment
PortfolioWith(spy_price, enriched) ==
    IF spy_price.err # "" THEN [err |-> spy_price.err]
    ELSE IF enriched.err # "" THEN [err |-> enriched.err]
    ELSE aggregate_portfolio_greeks(enriched.v, spy_price.v)

get_portfolio_greeks(positions, live) ==
    PortfolioWith(SpyPrice(live), EnrichAll(positions, live, FALSE, 1, Ok(<<>>)))

\* new_pos["expiry"] = tool_input["new_position"]["expiry"]
WithExpiry(new_pos, expiry) ==
    [new_pos EXCEPT !.has = @ \cup {"expiry"}, !.expiry = expiry]

\* the calculate_hypothetical_impact branch of dispatch after the SPY quote
\* and the enrichments
ImpactWith(tool_input, spy_price, existing, new_pos) ==
    IF spy_price.err # "" THEN [err |-> spy_price.err]
    ELSE IF existing.err # "" THEN [err |-> existing.err]
    ELSE IF new_pos.err # "" THEN [err |-> new_pos.err]
    ELSE IF "expiry" \notin tool_input.new_position.has THEN [err |-> "KeyError"]
    ELSE calculate_hypothetical_impact(existing.v,
             WithExpiry(new_pos.v, tool_input.new_position.expiry),
             spy_price.v)

\* the calculate_pnl_decomposition branch of dispatch after the fetch
PnlWith(tool_input, und, T) ==
    IF und.err # "" THEN [err |-> und.err]
    ELSE IF T.err # "" THEN [err |-> T.err]
    ELSE IF FirstMissing(tool_input, <<"option_type", "strike", "sigma", "contracts", "entry_price">>) # ""
    THEN [err |-> "KeyError"]
    ELSE pnl_decomposition(tool_input.option_type, und.price,
             tool_input.strike, T.v, und.risk_free_rate, und.dividend_yield,
             tool_input.sigma, tool_input.contracts, tool_input.entry_price,
             IF "price_move" \in tool_input.has
                 THEN tool_input.price_move ELSE Zero,
             IF "iv_change_abs" \in tool_input.has
                 THEN tool_input.iv_change_abs ELSE Zero,
             IF "days_elapsed" \in tool_input.has
                 THEN tool_input.days_elapsed ELSE 0)

\* the body of the try statement: the outcome of the branch taken
dispatch_try(name, tool_input, live) ==
    IF name = "get_underlying_data" THEN
        IF "ticker" \notin tool_input.has THEN [err |-> "KeyError"]
        ELSE get_underlying_data(tool_input.ticker, live)
    ELSE IF name = "get_option_chain" THEN
        IF "ticker" \notin tool_input.has THEN [err |-> "KeyError"]
        ELSE get_option_chain(tool_input.ticker,
                 IF "max_dte" \in tool_input.has
                     THEN tool_input.max_dte ELSE 365,
                 IF "strike_range_pct" \in tool_input.has
                     THEN tool_input.strike_range_pct ELSE Q(15, 100),
                 live)
    ELSE IF name = "calculate_position_analysis" THEN
        IF FirstMissing(tool_input, <<"option_type", "ticker", "strike", "expiry", "contracts", "entry_price", "sigma">>) # ""
        THEN [err |-> "KeyError"]
        ELSE calculate_position_analysis(tool_input.option_type,
                 tool_input.ticker, tool_input.strike, tool_input.expiry,
                 tool_input.contracts, tool_input.entry_price,
                 tool_input.sigma,
                 IF "days_forward" \in tool_input.has
                     THEN tool_input.days_forward ELSE 0,
                 live)
    ELSE IF name = "get_events" THEN
        IF "ticker" \notin tool_input.has THEN [err |-> "KeyError"]
        ELSE get_events(tool_input.ticker, live)
    ELSE IF name = "get_portfolio_greeks" THEN
        IF "positions" \notin tool_input.has THEN [err |-> "KeyError"]
        ELSE get_portfolio_greeks(tool_input.positions, live)
    ELSE IF name = "calculate_hypothetical_impact" THEN
        IF SpyPrice(live).err # "" THEN [err |-> SpyPrice(live).err]
        ELSE IF FirstMissing(tool_input, <<"existing_positions", "new_position">>) # ""
        THEN [err |-> "KeyError"]
        ELSE ImpactWith(tool_input, SpyPrice(live),
                 EnrichAll(tool_input.existing_positions, live, TRUE, 1, Ok(<<>>)),
                 Enrich(tool_input.new_position, live, TRUE))
    ELSE IF name = "calculate_pnl_decomposition" THEN
        IF "ticker" \notin tool_input.has THEN [err |-> "KeyError"]
        ELSE PnlWith(tool_input, get_underlying_data(tool_input.ticker, live),
                 IF "expiry" \in tool_input.has
                     THEN TimeToExpiry(tool_input.expiry, live)
                     ELSE Raise("KeyError"))
    ELSE [err |-> "", error |-> "Unknown tool: " \o name]

\* the dict without the model's err field
Doc(outcome) == [k \in DOMAIN outcome \ {"err"} |-> outcome[k]]

\* the except clause: the exception's message under "error" (the model
\* keeps the exception's class for its message)
Caught(outcome) ==
    IF outcome.err # "" THEN [err |-> "", error |-> outcome.err] ELSE outcome

\* json.dumps(result): the text of the document
json_dumps(doc) == [err |-> "", json |-> doc]

\* a dispatch without the except clause
dispatch_uncaught(name, tool_input, live) ==
    IF dispatch_try(name, tool_input, live).err # ""
    THEN [err |-> dispatch_try(name, tool_input, live).err]
    ELSE json_dumps(Doc(dispatch_try(name, tool_input, live)))

dispatch(name, tool_input, live) ==
    json_dumps(Doc(Caught(dispatch_try(name, tool_input, live))))

----------------------------------------------------------------------------
(* core/gates.py                                                           *)

LEVEL_ORDER == [beginner |-> 0, intermediate |-> 1, advanced |-> 2]

\* a strategy gate; risk is "" for a gate without the key
Gate(min_level, risk, description) ==
    [min_level |-> min_level, risk |-> risk, description |-> description]

STRATEGY_GATES ==
    [buy_calls_puts |-> Gate("beginner", "defined", "Single-leg directional bet; max loss is the premium paid."),
     paper_trading |-> Gate("beginner", "", "Risk-free practice on a portfolio replica."),
     covered_calls |-> Gate("intermediate", "defined_with_assignment", "Sell call against 100 owned shares; caps upside, generates income."),
     protective_puts |-> Gate("intermediate", "defined", "Buy put to insure a long stock/ETF position."),
     cash_secured_puts |-> Gate("intermediate", "defined_with_assignment", "Sell put with full cash collateral; premium income + potential stock entry."),
     vertical_spread |-> Gate("intermediate", "defined", "Buy and sell calls (or puts) at different strikes, same expiry."),
     collar |-> Gate("intermediate", "defined", "Protective put + covered call on the same position."),
     iron_condor |-> Gate("advanced", "defined", "Sell OTM call spread + sell OTM put spread; profits from low volatility."),
     butterfly |-> Gate("advanced", "defined", "Three-strike strategy that profits if stock pins near the middle strike."),
     calendar_spread |-> Gate("advanced", "defined", "Same strike, different expiries; profits from time decay differential."),
     diagonal_spread |-> Gate("advanced", "defined", "Different strikes AND different expiries; complex vega + theta interplay."),
     ratio_spread |-> Gate("advanced", "undefined", "Unequal number of long vs short contracts; one side becomes uncovered."),
     naked_options |-> Gate("advanced", "undefined", "Short options with no offsetting position; unlimited loss potential."),
     advanced_greeks_management |-> Gate("advanced", "", "Delta hedging, vega neutrality, portfolio-level Greeks rebalancing.")]

\* a context gate; lo..hi is the threshold ("between")
ContextGate(condition, operator, lo, hi, min_level, reason) ==
    [condition |-> condition, operator |-> operator, lo |-> lo, hi |-> hi, min_level |-> min_level, reason |-> reason]

CONTEXT_GATES ==
    <<ContextGate("leg_count", ">=", 5, 5, "advanced", "5+ legs on a single ticker requires real-time Greeks monitoring across all legs."),
      ContextGate("leg_count", "between", 2, 4, "intermediate", "Multi-leg trades require understanding how legs offset each other's risk."),
      ContextGate("concurrent_positions", ">=", 5, 5, "advanced", "5+ open positions requires portfolio-level Greeks aggregation. Delta from one position can offset another - managing them independently misses this."),
      ContextGate("concurrent_positions", "between", 2, 4, "intermediate", "Multiple concurrent positions require tracking P&L and expiry dates across positions."),
      ContextGate("cross_ticker_count", ">=", 4, 4, "advanced", "Options across 4+ tickers with correlated underlyings (e.g., NVDA + QQQ during a tech move) amplify each other in ways that require portfolio-level risk management."),
      ContextGate("cross_ticker_count", "between", 2, 3, "intermediate", "Options on 2-3 tickers simultaneously requires tracking multiple positions and expiries."),
      ContextGate("is_undefined_risk", "is_true", 0, 0, "advanced", "Undefined/unlimited risk positions (naked, ratio spreads) require advanced risk management."),
      ContextGate("has_multiple_expirations", "is_true", 0, 0, "advanced", "Trading across multiple expiry dates introduces calendar risk (vega as a primary driver) which behaves very differently from single-expiry positions.")>>

----------------------------------------------------------------------------
(* assessment/tools.py: the action gate.  A context is a dict as above: a  *)
(* record of values plus has, the set of its keys; the context with no key *)
(* stands for None and for the empty dict, which the code treats alike.    *)

\* Python's None
None == [none |-> "None"]

\* fired, as _highest_context_level computes it for a gate whose key is set
Fired(gate, val) ==
    IF gate.operator = ">=" THEN val >= gate.lo
    ELSE IF gate.operator = "between" THEN gate.lo <= val /\ val <= gate.hi
    ELSE val

\* fired, as the gaps loop computes it: no branch for "is_true"
GapFired(gate, val) ==
    IF gate.operator = ">=" THEN val >= gate.lo
    ELSE IF gate.operator = "between" THEN gate.lo <= val /\ val <= gate.hi
    ELSE FALSE

\* the gate is looked at: not the undefined-risk gate, and its key is set
Considered(gate, context) ==
    gate.condition # "is_undefined_risk" /\ gate.condition \in context.has

RECURSIVE HighestFrom(_, _, _, _)
\* the loop of _highest_context_level from gate i on
HighestFrom(context, i, highest_rank, highest_level) ==
    IF i > Len(CONTEXT_GATES) THEN highest_level
    ELSE IF /\ Considered(CONTEXT_GATES[i], context)
            /\ Fired(CONTEXT_GATES[i], context[CONTEXT_GATES[i].condition])
            /\ LEVEL_ORDER[CONTEXT_GATES[i].min_level] > highest_rank
    THEN HighestFrom(context, i + 1, LEVEL_ORDER[CONTEXT_GATES[i].min_level], CONTEXT_GATES[i].min_level)
    ELSE HighestFrom(context, i + 1, highest_rank, highest_level)

\* _highest_context_level; "" stands for None
highest_context_level(context) ==
    IF context.has = {} THEN "" ELSE HighestFrom(context, 1, -1, "")

\* attempted_action.replace("_", " ") and its title() for the names in use
ActionLabels ==
    [buy_calls_puts |-> <<"buy calls puts", "Buy Calls Puts">>,
     paper_trading |-> <<"paper trading", "Paper Trading">>,
     covered_calls |-> <<"covered calls", "Covered Calls">>,
     protective_puts |-> <<"protective puts", "Protective Puts">>,
     cash_secured_puts |-> <<"cash secured puts", "Cash Secured Puts">>,
     vertical_spread |-> <<"vertical spread", "Vertical Spread">>,
     collar |-> <<"collar", "Collar">>,
     iron_condor |-> <<"iron condor", "Iron Condor">>,
     butterfly |-> <<"butterfly", "Butterfly">>,
     calendar_spread |-> <<"calendar spread", "Calendar Spread">>,
     diagonal_spread |-> <<"diagonal spread", "Diagonal Spread">>,
     ratio_spread |-> <<"ratio spread", "Ratio Spread">>,
     naked_options |-> <<"naked options", "Naked Options">>,
     advanced_greeks_management |-> <<"advanced greeks management", "Advanced Greeks Management">>,
     straddle |-> <<"straddle", "Straddle">>]

build_suggestions(action_label, investor_rank) ==
    <<[action |-> "learn_more",
       label |-> "Learn about " \o action_label,
       description |-> "Read a guide on how " \o action_label \o " works, including real examples and risk/reward tradeoffs."],
      [action |-> "take_assessment",
       label |-> "Take the " \o (IF investor_rank = 0 THEN "intermediate" ELSE "advanced") \o " assessment",
       description |-> "Complete the " \o (IF investor_rank = 0 THEN "intermediate" ELSE "advanced") \o "-level knowledge check (~5 minutes). It gives you a clearer picture of where your gaps are."],
      [action |-> "paper_trading",
       label |-> "Try it in paper trading first",
       description |-> "Practice this strategy on an exact replica of your portfolio with no real money at risk."]>>

\* the returned dict
Permission(attempted_action, investor_level, notification) ==
    [attempted_action |-> attempted_action, investor_level |-> investor_level, notification |-> notification]

\* the three risks, and the strategy's description when its risk is undefined
Risks(strategy_gate) ==
    <<"This strategy carries unlimited or very large loss potential - losses are not capped by a premium paid.",
      "Margin calls can force position closure at an unfavourable price.",
      "Volatile underlyings can gap through your strike overnight.">>
    \o (IF strategy_gate.risk = "undefined" /\ strategy_gate.description # ""
        THEN <<strategy_gate.description>> ELSE <<>>)

\* the warning branch
Warning(attempted_action, investor_level, investor_rank, strategy_gate) ==
    Permission(attempted_action, investor_level,
        [level       |-> "warning",
         headline    |-> ActionLabels[attempted_action][2] \o " carries unlimited risk",
         risks       |-> Risks(strategy_gate),
         suggestions |-> build_suggestions(ActionLabels[attempted_action][1], investor_rank)])

\* the reasons of the context gates the gaps loop takes for fired
ContextGaps(context, investor_rank) ==
    SelectSeq([i \in 1..Len(CONTEXT_GATES) |->
                  IF /\ Considered(CONTEXT_GATES[i], context)
                     /\ GapFired(CONTEXT_GATES[i], context[CONTEXT_GATES[i].condition])
                     /\ LEVEL_ORDER[CONTEXT_GATES[i].min_level] > investor_rank
                  THEN CONTEXT_GATES[i].reason ELSE ""],
              LAMBDA reason : reason # "")

\* the gaps list of an advisory
Gaps(attempted_action, context, investor_rank, strategy_gate, context_level) ==
    (IF LEVEL_ORDER[strategy_gate.min_level] > investor_rank
     THEN <<ActionLabels[attempted_action][2] \o " is typically used by " \o strategy_gate.min_level \o " investors. " \o strategy_gate.description>>
     ELSE <<>>)
    \o (IF context_level # "" /\ LEVEL_ORDER[context_level] > investor_rank
        THEN ContextGaps(context, investor_rank) ELSE <<>>)

\* the level whose rank is required_rank
LevelOfRank(required_rank) ==
    CHOOSE k \in DOMAIN LEVEL_ORDER : LEVEL_ORDER[k] = required_rank

\* a maximum that looks at the strategy's rank alone
MaxRankOfFirst(a, b) == a

\* max(a, b) of two ranks
MaxRank(a, b) == IF a >= b THEN a ELSE b

\* the advisory branch and the return without friction
Advisory(attempted_action, investor_level, context, investor_rank, strategy_gate, context_level, required_rank) ==
    IF investor_rank < required_rank
    THEN Permission(attempted_action, investor_level,
             [level       |-> "advisory",
              headline    |-> "This is typically a " \o LevelOfRank(required_rank) \o "-level strategy - here's what to keep in mind",
              gaps        |-> Gaps(attempted_action, context, investor_rank, strategy_gate, context_level),
              suggestions |-> build_suggestions(ActionLabels[attempted_action][1], investor_rank)])
    ELSE Permission(attempted_action, investor_level, None)

\* a gate that takes the advisory branch first and so warns nobody whose
\* level is below the strategy's
permission_advisory_first(attempted_action, investor_level, context, investor_rank, strategy_gate) ==
    Advisory(attempted_action, investor_level, context, investor_rank,
             strategy_gate, highest_context_level(context),
             MaxRank(LEVEL_ORDER[strategy_gate.min_level],
                     IF highest_context_level(context) # ""
                     THEN LEVEL_ORDER[highest_context_level(context)] ELSE -1))

\* check_action_permission after the lookups of the level and the strategy
permission_body(attempted_action, investor_level, context, investor_rank, strategy_gate) ==
    IF \/ strategy_gate.risk = "undefined"
       \/ ("is_undefined_risk" \in context.has /\ context.is_undefined_risk)
    THEN Warning(attempted_action, investor_level, investor_rank, strategy_gate)
    ELSE Advisory(attempted_action, investor_level, context, investor_rank,
                  strategy_gate, highest_context_level(context),
                  MaxRank(LEVEL_ORDER[strategy_gate.min_level],
                          IF highest_context_level(context) # ""
                          THEN LEVEL_ORDER[highest_context_level(context)] ELSE -1))

check_action_permission(attempted_action, investor_level, context) ==
    permission_body(attempted_action, investor_level, context,
        IF investor_level \in DOMAIN LEVEL_ORDER
            THEN LEVEL_ORDER[investor_level] ELSE 0,
        IF attempted_action \in DOMAIN STRATEGY_GATES
            THEN STRATEGY_GATES[attempted_action]
            ELSE Gate("advanced", "", ""))

(* main.py: the gate step of the demo *)

\* the alternatives the demo prints
DemoLines(gate_result) ==
    [i \in 1..Len(gate_result.alternatives) |->
        <<gate_result.alternatives[i].action, gate_result.alternatives[i].label, gate_result.alternatives[i].description>>]

\* the gate step on the record check_action_permission returned
demo_gate_flow(gate_result) ==
    IF {"allowed", "required_level", "alternatives"} \ DOMAIN gate_result # {}
    THEN [err |-> "KeyError"]
    ELSE [err |-> "", allowed |-> gate_result.allowed, required_level |-> gate_result.required_level, lines |-> DemoLines(gate_result)]

----------------------------------------------------------------------------
(* The callers.  A caller holds a list of positions, calls one function of *)
(* the engine on it and looks at what comes back; call names the function  *)
(* and its other arguments, result is what it returned or raised.          *)

VARIABLES caller_positions, call, result
vars == <<caller_positions, call, result>>

NoCall == [op |-> "none"]

PriceSpots   == {Int2Q(-10), Zero, Int2Q(90), Int2Q(100), Int2Q(110)}
PriceStrikes == {Zero, Int2Q(100)}
PriceTimes   == {Q(-1, 365), Zero, Q(1, 10^8), Q(1, 4)}
PriceSigmas  == {Q(-1, 10), Zero, Q(3, 10)}

Init ==
    /\ caller_positions = <<>>
    /\ call = NoCall
    /\ result = [err |-> ""]

\* the caller adds a leg to its list
AddPosition(leg) ==
    /\ call = NoCall
    /\ Len(caller_positions) < MaxPositions
    /\ caller_positions' = Append(caller_positions, leg)
    /\ UNCHANGED <<call, result>>

CallGbsPrice(option_type, S, K, T, sigma) ==
    /\ call = NoCall
    /\ caller_positions = <<>>
    /\ call' = [op |-> "gbs_price", option_type |-> option_type, S |-> S,
                K |-> K, T |-> T, r |-> Rate, q |-> Yield, sigma |-> sigma]
    /\ result' = gbs_price(option_type, S, K, T, Rate, Yield, sigma)
    /\ UNCHANGED caller_positions

GreekSpots     == {Q(1, 100), Int2Q(80), Int2Q(100), Int2Q(110)}
GreekTimes     == {Q(-1, 365), Zero, Q(1, 4), One}
GreekSigmas    == {Zero, Q(3, 10)}
GreekContracts == {1, 2}

CallGreeks(option_type, S, T, sigma, contracts) ==
    /\ call = NoCall
    /\ caller_positions = <<>>
    /\ call' = [op |-> "calculate_greeks", option_type |-> option_type,
                S |-> S, K |-> Int2Q(100), T |-> T, r |-> Rate, q |-> Yield,
                sigma |-> sigma, contracts |-> contracts]
    /\ result' = calculate_greeks(option_type, S, Int2Q(100), T, Rate, Yield,
                                  sigma, contracts)
    /\ UNCHANGED caller_positions

ScenarioStrikes == {Zero, Int2Q(100)}
ScenarioSigmas  == {Zero, Q(3, 10)}
EntryPrices     == {Int2Q(5), Q(13, 2)}
DaysForward     == {0, 1, 30, 100}

CallScenario(option_type, K, sigma, contracts, entry_price, days_forward) ==
    /\ call = NoCall
    /\ caller_positions = <<>>
    /\ call' = [op |-> "run_scenario_analysis", option_type |-> option_type,
                S |-> Int2Q(100), K |-> K, T |-> Q(1, 4), r |-> Rate,
                q |-> Yield, sigma |-> sigma, contracts |-> contracts,
                entry_price |-> entry_price, days_forward |-> days_forward]
    /\ result' = run_scenario_analysis(option_type, Int2Q(100), K, Q(1, 4),
                                       Rate, Yield, sigma, contracts,
                                       entry_price, days_forward)
    /\ UNCHANGED caller_positions

PriceMovesAbs == {Int2Q(-5), Zero, Int2Q(1), Int2Q(5)}
IvChanges     == {Q(-3, 10), Q(-1, 10), Zero, Q(1, 10)}
DaysElapsed   == {0, 1, 30, 100}

CallPnl(option_type, K, contracts, price_move, iv_change_abs, days_elapsed) ==
    /\ call = NoCall
    /\ caller_positions = <<>>
    /\ call' = [op |-> "pnl_decomposition", option_type |-> option_type,
                S |-> Int2Q(100), K |-> K, T |-> Q(1, 4), r |-> Rate,
                q |-> Yield, sigma |-> Q(3, 10), contracts |-> contracts,
                entry_price |-> Int2Q(5), price_move |-> price_move,
                iv_change_abs |-> iv_change_abs,
                days_elapsed |-> days_elapsed]
    /\ result' = pnl_decomposition(option_type, Int2Q(100), K, Q(1, 4), Rate,
                                   Yield, Q(3, 10), contracts, Int2Q(5),
                                   price_move, iv_change_abs, days_elapsed)
    /\ UNCHANGED caller_positions

CallAggregate(spy_price) ==
    /\ call = NoCall
    /\ call' = [op |-> "aggregate_portfolio_greeks", spy_price |-> spy_price]
    /\ result' = aggregate_portfolio_greeks(caller_positions, spy_price)
    /\ UNCHANGED caller_positions

CallHypothetical(new_position, spy_price) ==
    /\ call = NoCall
    /\ call' = [op |-> "calculate_hypothetical_impact",
                new_position |-> new_position, spy_price |-> spy_price]
    /\ result' = calculate_hypothetical_impact(caller_positions, new_position,
                                               spy_price)
    /\ UNCHANGED caller_positions

\* tool inputs.  A position of a tool input names its strike and expiry;
\* the tool fills in S, K, T, r, q and beta from the live data
ToolOptionKeys == {"ticker", "option_type", "strike", "expiry", "contracts", "sigma", "beta"}
ToolEquityKeys == {"position_type", "ticker", "shares"}

ToolOptionLeg(option_type, absent) ==
    [has |-> ToolOptionKeys \ absent, position_type |-> "option",
     ticker |-> "AAA", option_type |-> option_type, strike |-> Int2Q(100),
     expiry |-> "2026-03-15", contracts |-> 1, sigma |-> Q(3, 10),
     beta |-> Q(1, 2), shares |-> 0, S |-> Zero, K |-> Zero, T |-> Zero,
     r |-> Zero, q |-> Zero]

ToolEquityLeg ==
    [has |-> ToolEquityKeys, position_type |-> "equity", ticker |-> "BBB",
     option_type |-> "", strike |-> Zero, expiry |-> "", contracts |-> 0,
     sigma |-> Zero, beta |-> Zero, shares |-> 100, S |-> Zero, K |-> Zero,
     T |-> Zero, r |-> Zero, q |-> Zero]

ToolInputKeys == {"ticker", "option_type", "strike", "expiry", "contracts", "entry_price", "sigma", "days_forward", "price_move", "iv_change_abs", "days_elapsed", "max_dte", "strike_range_pct", "positions", "existing_positions", "new_position"}
OptionalKeys  == {"days_forward", "price_move", "iv_change_abs", "days_elapsed", "max_dte", "strike_range_pct"}

ToolInput(absent, expiry, positions, new_position) ==
    [has |-> ToolInputKeys \ absent, ticker |-> "aaa", option_type |-> "call",
     strike |-> Int2Q(100), expiry |-> expiry, contracts |-> 1,
     entry_price |-> Int2Q(5), sigma |-> Q(3, 10), days_forward |-> 1,
     price_move |-> Int2Q(1), iv_change_abs |-> Q(1, 10), days_elapsed |-> 1,
     max_dte |-> 30, strike_range_pct |-> Q(1, 10), positions |-> positions,
     existing_positions |-> positions, new_position |-> new_position]

\* complete inputs, inputs that lack keys, an expiry that is no date, and
\* positions that lack a key
ToolInputs ==
    {ToolInput(a, "2026-03-15", <<ToolOptionLeg("call", {})>>, ToolOptionLeg("put", {})) :
        a \in {{}, OptionalKeys, {"ticker"}, {"sigma"}, {"positions", "existing_positions", "new_position"}}}
    \cup {ToolInput({}, "15/03/2026", <<ToolOptionLeg("call", {})>>, ToolOptionLeg("put", {})),
          ToolInput({}, "2026-03-15", <<ToolOptionLeg("call", {"strike"})>>, ToolOptionLeg("put", {})),
          ToolInput({}, "2026-03-15", <<ToolEquityLeg, ToolOptionLeg("put", {})>>, ToolEquityLeg),
          ToolInput({}, "2026-03-15", <<>>, ToolOptionLeg("call", {"beta"}))}

ToolNames == {"get_underlying_data", "get_option_chain", "calculate_position_analysis", "get_events", "get_portfolio_greeks", "calculate_hypothetical_impact", "calculate_pnl_decomposition"}
DispatchNames == ToolNames \cup {"get_quote"}

Live(fetch, price, spy, today) ==
    [fetch |-> fetch, price |-> price, beta |-> Q(6, 5), spy |-> spy,
     today |-> today, events |-> [recent_news |-> <<>>]]

\* the market answers; it fails to answer; the underlying or SPY quotes
\* zero; the expiry is today
Lives ==
    {Live("", Int2Q(100), Int2Q(450), "2026-01-01"),
     Live("ConnectionError", Int2Q(100), Int2Q(450), "2026-01-01"),
     Live("", Zero, Int2Q(450), "2026-01-01"),
     Live("", Int2Q(100), Zero, "2026-01-01"),
     Live("", Int2Q(100), Int2Q(450), "2026-03-15")}

CallDispatch(name, tool_input, live) ==
    /\ call = NoCall
    /\ caller_positions = <<>>
    /\ call' = [op |-> "dispatch", name |-> name, tool_input |-> tool_input,
                live |-> live]
    /\ result' = dispatch(name, tool_input, live)
    /\ UNCHANGED caller_positions

\* the callers of the action gate: strategies of every level and risk and a
\* name that is no strategy, the three levels and a name that is no level,
\* and contexts with any of the five keys set or not
GateActions == {"buy_calls_puts", "paper_trading", "covered_calls", "vertical_spread", "iron_condor", "calendar_spread", "naked_options", "straddle"}
GateLevels  == {"beginner", "intermediate", "advanced", "expert"}

Context(has, leg_count, is_undefined_risk, has_multiple_expirations) ==
    [has |-> has, leg_count |-> leg_count, concurrent_positions |-> 5,
     cross_ticker_count |-> 2, is_undefined_risk |-> is_undefined_risk,
     has_multiple_expirations |-> has_multiple_expirations]

Contexts ==
    {Context(h \cup l[1] \cup u[1] \cup m[1], l[2], u[2], m[2]) :
        h \in SUBSET {"concurrent_positions", "cross_ticker_count"},
        l \in {<<{}, 0>>, <<{"leg_count"}, 3>>, <<{"leg_count"}, 5>>},
        u \in {<<{}, FALSE>>, <<{"is_undefined_risk"}, FALSE>>, <<{"is_undefined_risk"}, TRUE>>},
        m \in {<<{}, FALSE>>, <<{"has_multiple_expirations"}, FALSE>>, <<{"has_multiple_expirations"}, TRUE>>}}

CallPermission(attempted_action, investor_level, context) ==
    /\ call = NoCall
    /\ caller_positions = <<>>
    /\ call' = [op |-> "check_action_permission",
                attempted_action |-> attempted_action,
                investor_level |-> investor_level, context |-> context]
    /\ result' = Ok(check_action_permission(attempted_action, investor_level, context))
    /\ UNCHANGED caller_positions

\* the demo entry point reaches its gate step
CallDemoGate ==
    /\ call = NoCall
    /\ caller_positions = <<>>
    /\ call' = [op |-> "demo_gate_flow"]
    /\ result' = demo_gate_flow(check_action_permission("iron_condor", "beginner", Context({}, 0, FALSE, FALSE)))
    /\ UNCHANGED caller_positions

\* the caller drops the result and starts over
Reset ==
    /\ call # NoCall
    /\ caller_positions' = <<>>
    /\ call' = NoCall
    /\ result' = [err |-> ""]

Next ==
    \/ \E leg \in Legs : AddPosition(leg)
    \/ \E t \in OptionTypes, S \in PriceSpots, K \in PriceStrikes,
          T \in PriceTimes, sigma \in PriceSigmas :
              CallGbsPrice(t, S, K, T, sigma)
    \/ \E t \in OptionTypes, S \in GreekSpots, T \in GreekTimes,
          sigma \in GreekSigmas, n \in GreekContracts :
              CallGreeks(t, S, T, sigma, n)
    \/ \E t \in OptionTypes, K \in ScenarioStrikes, sigma \in ScenarioSigmas,
          n \in GreekContracts, e \in EntryPrices, d \in DaysForward :
              CallScenario(t, K, sigma, n, e, d)
    \/ \E t \in OptionTypes, K \in ScenarioStrikes, n \in GreekContracts,
          m \in PriceMovesAbs, v \in IvChanges, d \in DaysElapsed :
              CallPnl(t, K, n, m, v, d)
    \/ \E p \in SpyPrices : CallAggregate(p)
    \/ \E leg \in Legs, p \in SpyPrices : CallHypothetical(leg, p)
    \/ \E name \in DispatchNames, i \in ToolInputs, l \in Lives :
          CallDispatch(name, i, l)
    \/ \E a \in GateActions, lv \in GateLevels, c \in Contexts :
          CallPermission(a, lv, c)
    \/ CallDemoGate
    \/ Reset

Spec == Init /\ [][Next]_vars

----------------------------------------------------------------------------
(* Concurrent callers.  Several threads call the engine on one shared list *)
(* of positions.  Here call[w] is the frame of thread w (its position in   *)
(* the function, its arguments and its local variables) and result[w] is   *)
(* what its last call returned or raised.  aggregate_portfolio_greeks runs *)
(* one leg of its loop per step; calculate_hypothetical_impact runs one of *)
(* its three aggregations per step.                                        *)

MaxThreads == 2
Threads    == 1..MaxThreads

ThreadLegs == {OptionLeg("put", 2, Q(1, 2), {}),
               OptionLeg("call", 1, Q(6, 5), {"sigma"})}
ThreadSpyPrices == {Int2Q(450)}
SharedLists ==
    {<<>>,
     <<EquityLeg(100, Q(6, 5), {}), OptionLeg("call", 1, Q(6, 5), {})>>,
     <<OptionLeg("call", 1, Q(6, 5), {}), OptionLeg("call", 1, Q(6, 5), {"sigma"})>>}

Idle == [pc |-> "idle"]

ThreadInit ==
    /\ caller_positions \in SharedLists
    /\ call = [w \in Threads |-> Idle]
    /\ result = [w \in Threads |-> [err |-> ""]]

\* the caller's list once existing_positions + [new_position] has been
\* evaluated with an append in place of the concatenation
ListAfterAppend(existing_positions, new_position) ==
    existing_positions \o <<new_position>>

\* the caller's list once existing_positions + [new_position] has been
\* evaluated: + builds a new list
ListAfterConcat(existing_positions, new_position) == existing_positions

\* thread w enters aggregate_portfolio_greeks(caller_positions, spy_price)
EnterAggregate(w, spy_price) ==
    /\ call[w].pc = "idle"
    /\ call' = [call EXCEPT ![w] =
                  [pc |-> "loop", op |-> "aggregate_portfolio_greeks",
                   positions |-> caller_positions, spy_price |-> spy_price,
                   i |-> 1, acc |-> EmptyTotals]]
    /\ UNCHANGED <<caller_positions, result>>

\* one iteration of the for loop, on the list as it is now
LoopStep(w) ==
    /\ call[w].pc = "loop"
    /\ call[w].acc.err = ""
    /\ call[w].i <= Len(caller_positions)
    /\ call' = [call EXCEPT ![w].acc =
                  AggregateLeg(call[w].acc, caller_positions[call[w].i],
                               call[w].spy_price),
                            ![w].i = @ + 1]
    /\ UNCHANGED <<caller_positions, result>>

\* the loop has ended or raised: the function returns
ReturnAggregate(w) ==
    /\ call[w].pc = "loop"
    /\ call[w].acc.err # "" \/ call[w].i > Len(caller_positions)
    /\ call' = [call EXCEPT ![w].pc = "done"]
    /\ result' = [result EXCEPT ![w] =
                    AggregateResult(call[w].spy_price, call[w].acc)]
    /\ UNCHANGED caller_positions

\* thread w enters calculate_hypothetical_impact(caller_positions,
\* new_position, spy_price)
EnterHypothetical(w, new_position, spy_price) ==
    /\ call[w].pc = "idle"
    /\ call' = [call EXCEPT ![w] =
                  [pc |-> "before", op |-> "calculate_hypothetical_impact",
                   positions |-> caller_positions,
                   new_position |-> new_position, spy_price |-> spy_price]]
    /\ UNCHANGED <<caller_positions, result>>

\* before = aggregate_portfolio_greeks(existing_positions, spy_price)
StepBefore(w) ==
    /\ call[w].pc = "before"
    /\ call' = [call EXCEPT ![w] =
                  [pc |-> "after", op |-> call[w].op,
                   positions |-> call[w].positions,
                   new_position |-> call[w].new_position,
                   spy_price |-> call[w].spy_price,
                   before |-> aggregate_portfolio_greeks(caller_positions,
                                                         call[w].spy_price)]]
    /\ UNCHANGED <<caller_positions, result>>

\* after = aggregate_portfolio_greeks(existing_positions + [new_position], ...)
StepAfter(w) ==
    /\ call[w].pc = "after"
    /\ call' = [call EXCEPT ![w] =
                  [pc |-> "isolated", op |-> call[w].op,
                   positions |-> call[w].positions,
                   new_position |-> call[w].new_position,
                   spy_price |-> call[w].spy_price,
                   before |-> call[w].before,
                   after |-> aggregate_portfolio_greeks(
                                 caller_positions \o <<call[w].new_position>>,
                                 call[w].spy_price)]]
    /\ caller_positions' = ListAfterConcat(caller_positions,
                                           call[w].new_position)
    /\ UNCHANGED result

\* isolated = aggregate_portfolio_greeks([new_position], ...) and the return
StepIsolated(w) ==
    /\ call[w].pc = "isolated"
    /\ call' = [call EXCEPT ![w].pc = "done"]
    /\ result' = [result EXCEPT ![w] =
                    ImpactResult(call[w].new_position, call[w].spy_price,
                                 call[w].before, call[w].after,
                                 aggregate_portfolio_greeks(
                                     <<call[w].new_position>>,
                                     call[w].spy_price))]
    /\ UNCHANGED caller_positions

\* the thread takes its result and is free for the next call
Leave(w) ==
    /\ call[w].pc = "done"
    /\ call' = [call EXCEPT ![w] = Idle]
    /\ result' = [result EXCEPT ![w] = [err |-> ""]]
    /\ UNCHANGED caller_positions

ThreadNext ==
    \E w \in Threads :
        \/ \E p \in ThreadSpyPrices : EnterAggregate(w, p)
        \/ LoopStep(w)
        \/ ReturnAggregate(w)
        \/ \E leg \in ThreadLegs, p \in ThreadSpyPrices :
              EnterHypothetical(w, leg, p)
        \/ StepBefore(w)
        \/ StepAfter(w)
        \/ StepIsolated(w)
        \/ Leave(w)

SpecThreads == ThreadInit /\ [][ThreadNext]_vars

----------------------------------------------------------------------------
(* core/runner.py: the agent loop.  The list the caller holds is messages, *)
(* which run_agent appends to in place; call is the frame of run_agent     *)
(* (pc, the response at hand, the loop index, tool_results, initial, the   *)
(* caller's list at the call, and dispatched, the calls of dispatch so far *)
(* as pairs of turn and block id) and result is what it printed last.      *)

MaxTurns == 3     \* calls of the model within one run

\* content blocks of a response
TextBlock == [type |-> "text", id |-> "", name |-> "", input |-> ""]
ToolUse(id, name) == [type |-> "tool_use", id |-> id, name |-> name, input |-> "{}"]

\* what the model may answer
StopReasons == {"end_turn", "tool_use", "max_tokens"}
Contents ==
    {<<TextBlock>>,
     <<ToolUse("t1", "get_events")>>,
     <<TextBlock, ToolUse("t1", "get_events"), ToolUse("t2", "get_quote")>>}

\* the lists a caller passes in
InitialMessages ==
    {<<[role |-> "user", content |-> "opening"]>>,
     <<[role |-> "user", content |-> "opening"],
       [role |-> "assistant", content |-> "earlier answer"],
       [role |-> "user", content |-> "follow-up"]>>}

\* the dispatch callable the agent supplies: a JSON string
agent_dispatch(name, input) == "{result of " \o name \o "}"

\* a tool result that carries the block's name where its id belongs
tool_result_by_name(block) ==
    [type |-> "tool_result", tool_use_id |-> block.name, content |-> agent_dispatch(block.name, block.input)]

\* the entry appended to tool_results for a tool_use block
tool_result(block) ==
    [type |-> "tool_result", tool_use_id |-> block.id, content |-> agent_dispatch(block.name, block.input)]

\* a loop that goes on unless the model said end_turn
GoesOnUnlessEndTurn(response) == response.stop_reason # "end_turn"

\* neither break is taken: the stop reason is tool_use
GoesOn(response) == response.stop_reason = "tool_use"

AgentInit ==
    /\ caller_positions \in InitialMessages
    /\ call = [pc |-> "create", turns |-> 0, initial |-> caller_positions,
               response |-> [stop_reason |-> "", content |-> <<>>],
               i |-> 1, tool_results |-> <<>>, dispatched |-> <<>>]
    /\ result = [err |-> "", printed |-> "Running agent"]

\* client.messages.create answers and the answer is appended
Respond(stop_reason, content) ==
    /\ call.pc = "create"
    /\ call.turns < MaxTurns
    /\ caller_positions' = Append(caller_positions, [role |-> "assistant", content |-> content])
    /\ call' = [call EXCEPT !.pc = "check", !.turns = @ + 1,
                            !.response = [stop_reason |-> stop_reason, content |-> content]]
    /\ UNCHANGED result

\* the two tests of the stop reason
CheckStop ==
    /\ call.pc = "check"
    /\ IF GoesOn(call.response)
       THEN /\ call' = [call EXCEPT !.pc = "blocks", !.i = 1, !.tool_results = <<>>]
            /\ UNCHANGED result
       ELSE /\ call' = [call EXCEPT !.pc = "returned"]
            /\ result' = [err |-> "",
                          printed |-> IF call.response.stop_reason = "end_turn" THEN "Done." ELSE "Unexpected stop reason: " \o call.response.stop_reason]
    /\ UNCHANGED caller_positions

\* one pass of the for loop over the blocks of the response
NextBlock ==
    /\ call.pc = "blocks"
    /\ call.i <= Len(call.response.content)
    /\ IF call.response.content[call.i].type = "tool_use"
       THEN call' = [call EXCEPT !.i = @ + 1,
                                 !.tool_results = Append(@, tool_result(call.response.content[call.i])),
                                 !.dispatched = Append(@, <<call.turns, call.response.content[call.i].id>>)]
       ELSE call' = [call EXCEPT !.i = @ + 1]
    /\ UNCHANGED <<caller_positions, result>>

\* the tool results are appended and the loop starts over
AppendResults ==
    /\ call.pc = "blocks"
    /\ call.i > Len(call.response.content)
    /\ caller_positions' = Append(caller_positions, [role |-> "user", content |-> call.tool_results])
    /\ call' = [call EXCEPT !.pc = "create"]
    /\ UNCHANGED result

\* the steps run_agent takes by itself
AgentStep == CheckStop \/ NextBlock \/ AppendResults

AgentNext ==
    \/ \E s \in StopReasons, c \in Contents : Respond(s, c)
    \/ CheckStop
    \/ NextBlock
    \/ AppendResults

\* the interpreter keeps running the loop; the model answers or not
SpecAgent == AgentInit /\ [][AgentNext]_vars /\ WF_vars(AgentStep)

----------------------------------------------------------------------------
(* What the callers see.                                                   *)

Aggregated   == call.op = "aggregate_portfolio_greeks"
Hypothetical == call.op = "calculate_hypothetical_impact"
Priced       == call.op = "gbs_price"
Returned     == result.err = ""

IsEquity(pos) == "position_type" \in pos.has /\ pos.position_type = "equity"

\* |a - b| <= tol
Within(a, b, tol) == QLe(QSub(a, b), tol) /\ QLe(QSub(b, a), tol)

\* C1: the before and after summaries of calculate_hypothetical_impact are
\* the summaries of aggregate_portfolio_greeks over existing_positions and
\* over existing_positions + [new_position], field for field.
C1_AfterIsAggregate ==
    (Hypothetical /\ Returned) =>
        /\ result.portfolio.before =
             aggregate_portfolio_greeks(caller_positions,
                                        call.spy_price).summary
        /\ result.portfolio.after =
             aggregate_portfolio_greeks(
                 caller_positions \o <<call.new_position>>,
                 call.spy_price).summary

\* a returned impact on a list of two legs at an SPY price that does not
\* divide the legs' exposure evenly
C1_Witness ==
    /\ Hypothetical /\ Returned
    /\ Len(caller_positions) = 2
    /\ call.spy_price = Int2Q(450)
    /\ result.portfolio.after # result.portfolio.before

\* C2 as stated: the summary of A + B is exactly the sum of the summaries
\* of A and B, for every split of the list into A and B and spy_price > 0.
C2_ExactlyAdditive ==
    (Aggregated /\ Returned /\ QLt(Zero, call.spy_price)) =>
        \A j \in 0..Len(caller_positions) :
            LET A == aggregate_portfolio_greeks(
                         SubSeq(caller_positions, 1, j), call.spy_price)
                B == aggregate_portfolio_greeks(
                         SubSeq(caller_positions, j + 1, Len(caller_positions)),
                         call.spy_price)
            IN  \A k \in DOMAIN result.summary :
                    result.summary[k] = QAdd(A.summary[k], B.summary[k])

\* C2 amended: total_theta_per_day and total_vega_per_pct of A + B are the
\* sums of those of A and B; beta_weighted_delta and beta_weighted_gamma,
\* which are rounded to 4 and 6 decimals, are within 0.0001 and 0.000001 of
\* the sums.
C2_AdditiveUpToRounding ==
    (Aggregated /\ Returned /\ QLt(Zero, call.spy_price)) =>
        \A j \in 0..Len(caller_positions) :
            LET A == aggregate_portfolio_greeks(
                         SubSeq(caller_positions, 1, j), call.spy_price)
                B == aggregate_portfolio_greeks(
                         SubSeq(caller_positions, j + 1, Len(caller_positions)),
                         call.spy_price)
            IN  /\ A.err = ""
                /\ B.err = ""
                /\ \A k \in DOMAIN result.summary :
                     Within(result.summary[k],
                            QAdd(A.summary[k], B.summary[k]),
                            CASE k = "beta_weighted_delta" -> Q(1, 10^4)
                              [] k = "beta_weighted_gamma" -> Q(1, 10^6)
                              [] OTHER -> Zero)

\* a returned aggregate of two legs whose rounded beta-weighted delta is
\* not the sum of the legs' rounded deltas
C2_Witness ==
    /\ Aggregated /\ Returned /\ QLt(Zero, call.spy_price)
    /\ Len(caller_positions) = 2
    /\ result.summary.beta_weighted_delta #
         QAdd(aggregate_portfolio_greeks(SubSeq(caller_positions, 1, 1),
                                         call.spy_price).summary.beta_weighted_delta,
              aggregate_portfolio_greeks(SubSeq(caller_positions, 2, 2),
                                         call.spy_price).summary.beta_weighted_delta)
    /\ result.summary.total_theta_per_day # Zero

\* C3: with T <= 0 or sigma <= 0 gbs_price returns max(0, S - K) for a call
\* and max(0, K - S) for a put and does not raise; with T > 0 and sigma > 0
\* a returned price is the value of the analytic formula.
C3_DegenerateIsIntrinsic ==
    Priced =>
        IF QLe(call.T, Zero) \/ QLe(call.sigma, Zero)
        THEN /\ result.err = ""
             /\ result.v = QMax(Zero, IF call.option_type = "call"
                                      THEN QSub(call.S, call.K)
                                      ELSE QSub(call.K, call.S))
        ELSE result.err = "" =>
                result = gbs_d1(call.option_type, call.S, call.K, call.T,
                                call.r, QSub(call.r, call.q), call.sigma,
                                Sqrt(call.T))

\* an out-of-the-money call priced with sigma = 0 and strike 100, and with
\* a spot below the strike: the floor at 0 acts
C3_Witness ==
    /\ Priced
    /\ QLt(Zero, call.T) /\ call.sigma = Zero
    /\ call.option_type = "call" /\ QLt(call.S, call.K)
    /\ result = Ok(Zero)

\* C4: with spy_price <= 0 aggregate_portfolio_greeks fails with an error
\* and returns no summary, for every list of positions, the empty list and
\* lists of equity legs included.
C4_NonPositiveSpyFails ==
    (Aggregated /\ QLe(call.spy_price, Zero)) => result.err # ""

\* C5: a list holding an option leg without K, T or sigma makes
\* aggregate_portfolio_greeks, and calculate_hypothetical_impact on that
\* list, fail wherever the leg stands; what comes back is the exception
\* alone, with no summary and no totals of the other legs.
LacksRequired(pos) ==
    ~IsEquity(pos) /\ {"K", "T", "sigma"} \ pos.has # {}

PassedPositions ==
    IF Hypothetical THEN caller_positions \o <<call.new_position>>
    ELSE caller_positions

C5_MissingFieldFails ==
    ((Aggregated \/ Hypothetical)
        /\ \E i \in 1..Len(PassedPositions) : LacksRequired(PassedPositions[i]))
    => (result.err # "" /\ DOMAIN result = {"err"})

\* a failed aggregation of two legs, the first complete and the second
\* without its strike, at a positive SPY price
C5_Witness ==
    /\ Aggregated /\ QLt(Zero, call.spy_price)
    /\ Len(caller_positions) = 2
    /\ ~LacksRequired(caller_positions[1])
    /\ "K" \notin caller_positions[2].has
    /\ result.err = "KeyError"

\* C6: a leg without a beta field makes aggregate_portfolio_greeks fail.
C6_MissingBetaFails ==
    (Aggregated /\ \E i \in 1..Len(caller_positions) :
                      "beta" \notin caller_positions[i].has)
    => result.err # ""

\* the list without its i-th leg
Without(positions, i) ==
    SubSeq(positions, 1, i - 1) \o SubSeq(positions, i + 1, Len(positions))

\* the unrounded totals of a list
Totals(positions, spy_price) ==
    AggregateLoop(positions, spy_price, 1, EmptyTotals)

\* C7: in a returned aggregate at spy_price > 0, an equity leg with shares,
\* S and beta adds shares * S * beta / spy_price to the beta-weighted delta
\* total, is reported with delta 1.0 and zero gamma, theta and vega, and the
\* summary's beta_weighted_gamma, total_theta_per_day and total_vega_per_pct
\* are those of the list without the leg; the leg carries none of the
\* fields pricing reads.
C7_EquityLeg ==
    (Aggregated /\ Returned /\ QLt(Zero, call.spy_price)) =>
        \A i \in 1..Len(caller_positions) :
            (IsEquity(caller_positions[i]) /\ "beta" \in caller_positions[i].has)
            =>
            LET rest  == Without(caller_positions, i)
                bw    == QDiv(QMul(Int2Q(caller_positions[i].shares),
                                   QMul(caller_positions[i].S,
                                        caller_positions[i].beta)),
                              call.spy_price)
                other == aggregate_portfolio_greeks(rest, call.spy_price)
            IN
            /\ Totals(caller_positions, call.spy_price).total_bw_delta =
                 QAdd(Totals(rest, call.spy_price).total_bw_delta, bw)
            /\ result.positions[i].bw_delta = Round(bw, 4)
            /\ result.positions[i].delta = One
            /\ result.positions[i].gamma = Zero
            /\ result.positions[i].theta_per_day = Zero
            /\ result.positions[i].vega_per_pct = Zero
            /\ result.summary.beta_weighted_gamma =
                 other.summary.beta_weighted_gamma
            /\ result.summary.total_theta_per_day =
                 other.summary.total_theta_per_day
            /\ result.summary.total_vega_per_pct =
                 other.summary.total_vega_per_pct
            /\ {"option_type", "K", "T", "sigma"} \cap caller_positions[i].has = {}

\* the example: 100 shares at S = 50 with beta 1.2 and SPY at 500 give a
\* beta-weighted delta of 12 and no gamma
C7_Witness ==
    /\ Aggregated /\ Returned
    /\ call.spy_price = Int2Q(500)
    /\ caller_positions = <<EquityLeg(100, Q(6, 5), {})>>
    /\ result.summary.beta_weighted_delta = Int2Q(12)
    /\ result.summary.beta_weighted_gamma = Zero

RECURSIVE SumOver(_, _, _)
\* the sum of field f of the Greeks of the option legs from leg i on
SumOver(positions, f, i) ==
    IF i > Len(positions) THEN Zero
    ELSE IF IsEquity(positions[i]) THEN SumOver(positions, f, i + 1)
    ELSE QAdd(calculate_greeks(positions[i].option_type, positions[i].S,
                               positions[i].K, positions[i].T, positions[i].r,
                               positions[i].q, positions[i].sigma,
                               positions[i].contracts)[f],
              SumOver(positions, f, i + 1))

\* the list with beta b on its i-th leg
WithBeta(positions, i, b) ==
    [positions EXCEPT ![i] = [@ EXCEPT !.beta = b, !.has = @ \cup {"beta"}]]

\* C8: in a returned aggregate at spy_price > 0, total_theta_per_day and
\* total_vega_per_pct are the sums of the option legs' theta_per_day and
\* vega_per_pct, and stay the same when a leg's beta or the positive
\* spy_price is changed.
C8_ThetaVegaUnweighted ==
    (Aggregated /\ Returned /\ QLt(Zero, call.spy_price)) =>
        /\ result.summary.total_theta_per_day =
             Round(SumOver(caller_positions, "theta_per_day", 1), 2)
        /\ result.summary.total_vega_per_pct =
             Round(SumOver(caller_positions, "vega_per_pct", 1), 2)
        /\ \A i \in 1..Len(caller_positions), b \in {Q(1, 2), Int2Q(3)},
              p \in {x \in SpyPrices : QLt(Zero, x)} :
             LET other == aggregate_portfolio_greeks(
                              WithBeta(caller_positions, i, b), p)
             IN  /\ other.summary.total_theta_per_day =
                      result.summary.total_theta_per_day
                 /\ other.summary.total_vega_per_pct =
                      result.summary.total_vega_per_pct

\* a returned aggregate of two option legs with different betas whose theta
\* and vega totals are not zero
C8_Witness ==
    /\ Aggregated /\ Returned /\ QLt(Zero, call.spy_price)
    /\ Len(caller_positions) = 2
    /\ ~IsEquity(caller_positions[1]) /\ ~IsEquity(caller_positions[2])
    /\ Beta(caller_positions[1]) # Beta(caller_positions[2])
    /\ result.summary.total_theta_per_day # Zero
    /\ result.summary.total_vega_per_pct # Zero

\* the factors a beta or an SPY price is multiplied by
Factors == {Int2Q(3), Q(1, 2)}

\* the unrounded contributions of the single leg pos
LegTotals(pos, spy_price) == Totals(<<pos>>, spy_price)

\* the leg pos with beta b
LegWithBeta(pos, b) == [pos EXCEPT !.beta = b, !.has = @ \cup {"beta"}]

\* C9: in a returned aggregate, an option leg is reported with
\* bw_delta = delta * S * beta / spy_price * contracts * 100 and
\* bw_gamma = gamma * S^2 * beta^2 / spy_price^2 * contracts * 100 (rounded
\* to 4 and 6 decimals); multiplying the leg's beta by k multiplies its
\* contribution to the delta total by k and to the gamma total by k^2, and
\* multiplying spy_price by k divides them by k and k^2.
C9_OptionLegScaling ==
    (Aggregated /\ Returned) =>
        \A i \in 1..Len(caller_positions) :
            ~IsEquity(caller_positions[i]) =>
            /\ result.positions[i].bw_delta =
                 Round(QMul(QDiv(QMul(QMul(result.positions[i].delta,
                                           caller_positions[i].S),
                                      Beta(caller_positions[i])),
                                 call.spy_price),
                            Int2Q(caller_positions[i].contracts * 100)), 4)
            /\ result.positions[i].bw_gamma =
                 Round(QMul(QDiv(QMul(QMul(QMul(result.positions[i].gamma,
                                                caller_positions[i].S),
                                           caller_positions[i].S),
                                      QMul(Beta(caller_positions[i]),
                                           Beta(caller_positions[i]))),
                                 QMul(call.spy_price, call.spy_price)),
                            Int2Q(caller_positions[i].contracts * 100)), 6)
            /\ \A k \in Factors :
                 LET leg    == LegTotals(caller_positions[i], call.spy_price)
                     scaled == LegTotals(
                                  LegWithBeta(caller_positions[i],
                                      QMul(k, Beta(caller_positions[i]))),
                                  call.spy_price)
                     priced == LegTotals(caller_positions[i],
                                         QMul(k, call.spy_price))
                 IN  /\ scaled.total_bw_delta = QMul(k, leg.total_bw_delta)
                     /\ scaled.total_bw_gamma =
                          QMul(QMul(k, k), leg.total_bw_gamma)
                     /\ QMul(k, priced.total_bw_delta) = leg.total_bw_delta
                     /\ QMul(QMul(k, k), priced.total_bw_gamma) =
                          leg.total_bw_gamma

\* a returned aggregate with an option leg of beta 1.2 whose delta and
\* gamma contributions are not zero
C9_Witness ==
    /\ Aggregated /\ Returned
    /\ Len(caller_positions) >= 1
    /\ ~IsEquity(caller_positions[1])
    /\ Beta(caller_positions[1]) = Q(6, 5)
    /\ result.positions[1].bw_delta # Zero
    /\ result.positions[1].bw_gamma # Zero

\* C10: in a returned impact, change is after minus before in each of the
\* four summary fields, and before plus change is after.
C10_ChangeIsDifference ==
    (Hypothetical /\ Returned) =>
        /\ DOMAIN result.portfolio.change =
             {"beta_weighted_delta", "beta_weighted_gamma",
              "total_theta_per_day", "total_vega_per_pct"}
        /\ \A k \in DOMAIN result.portfolio.change :
             /\ result.portfolio.change[k] =
                  QSub(result.portfolio.after[k], result.portfolio.before[k])
             /\ QAdd(result.portfolio.before[k], result.portfolio.change[k]) =
                  result.portfolio.after[k]

\* a returned impact on a list that is not empty, with a change in every
\* field
C10_Witness ==
    /\ Hypothetical /\ Returned
    /\ Len(caller_positions) >= 1
    /\ result.portfolio.before.total_theta_per_day # Zero
    /\ \A k \in DOMAIN result.portfolio.change :
         result.portfolio.change[k] # Zero

\* C11: with several threads calling aggregate_portfolio_greeks and
\* calculate_hypothetical_impact on one shared list in any interleaving, and
\* after any earlier calls, a call that has returned gives what the
\* function gives alone on the arguments it was called with, and while a
\* call runs and after it the caller's list holds the legs it held at the
\* call (existing_positions has not gained new_position).
C11_CallsArePure ==
    \A w \in Threads :
        /\ call[w].pc # "idle" => caller_positions = call[w].positions
        /\ call[w].pc = "done" =>
             result[w] =
               IF call[w].op = "aggregate_portfolio_greeks"
               THEN aggregate_portfolio_greeks(call[w].positions,
                                               call[w].spy_price)
               ELSE calculate_hypothetical_impact(call[w].positions,
                                                  call[w].new_position,
                                                  call[w].spy_price)

\* one thread has returned from calculate_hypothetical_impact while the
\* other is inside the loop of aggregate_portfolio_greeks on the same list
C11_Witness ==
    \E w, v \in Threads :
        /\ call[w].pc = "done"
        /\ call[w].op = "calculate_hypothetical_impact"
        /\ result[w].err = ""
        /\ call[v].pc = "loop" /\ call[v].i = 2
        /\ Len(caller_positions) = 2

\* C12: for T > 0, sigma > 0, S > 0 and K > 0, the call price minus the put
\* price of gbs_price on the same arguments is
\* S * e^((b - r) * T) - K * e^(-r * T) with b = r - q.
C12_PutCallParity ==
    (Priced /\ QLt(Zero, call.T) /\ QLt(Zero, call.sigma)
            /\ QLt(Zero, call.S) /\ QLt(Zero, call.K)) =>
        LET other == gbs_price(IF call.option_type = "call" THEN "put"
                               ELSE "call",
                               call.S, call.K, call.T, call.r, call.q,
                               call.sigma)
            c == IF call.option_type = "call" THEN result ELSE other
            p == IF call.option_type = "call" THEN other ELSE result
        IN  /\ c.err = "" /\ p.err = ""
            /\ QSub(c.v, p.v) =
                 QSub(QMul(call.S,
                           Exp(MulR(QSub(QSub(call.r, call.q), call.r),
                                    call.T, 7))),
                      QMul(call.K, Exp(MulR(QNeg(call.r), call.T, 7))))

\* a put priced by the formula a quarter of a year out, with the spot
\* above the strike, worth more than nothing
C12_Witness ==
    /\ Priced
    /\ call.option_type = "put"
    /\ call.T = Q(1, 4) /\ call.sigma = Q(3, 10)
    /\ call.S = Int2Q(110) /\ call.K = Int2Q(100)
    /\ result.err = "" /\ QLt(Zero, result.v)

Greeked == call.op = "calculate_greeks"

\* calculate_greeks on the arguments of the current call, for the other
\* option type
OtherGreeks ==
    calculate_greeks(IF call.option_type = "call" THEN "put" ELSE "call",
                     call.S, call.K, call.T, call.r, call.q, call.sigma,
                     call.contracts)
CallGreeksOf == IF call.option_type = "call" THEN result ELSE OtherGreeks
PutGreeksOf  == IF call.option_type = "call" THEN OtherGreeks ELSE result

\* e^((b - r) * T) with b = r - q, as math.exp gives it
CarryFactor ==
    Exp(MulR(QSub(QSub(call.r, call.q), call.r), call.T, 7))

Degenerate == QLe(call.T, Zero) \/ QLe(call.sigma, Zero)

\* C13 as stated: for every spec, degenerate ones (T <= 0 or sigma <= 0)
\* included, delta(call) - delta(put) of calculate_greeks is e^(-q * T) up
\* to the rounding of the two deltas and the digits of exp, and
\* gamma(call) = gamma(put).
C13_DeltaParityEverywhere ==
    (Greeked /\ Returned) =>
        /\ OtherGreeks.err = ""
        /\ Within(QSub(CallGreeksOf.delta, PutGreeksOf.delta), CarryFactor,
                  Q(1, 1000))
        /\ CallGreeksOf.gamma = PutGreeksOf.gamma

\* C13, amended: with T > 0 and sigma > 0 delta(call) - delta(put) is
\* e^(-q * T) to within 0.0001, the rounding of the two deltas; with T <= 0
\* or sigma <= 0, where both prices are intrinsic values, the difference is
\* 1 whatever q and T are; gamma(call) = gamma(put) in both cases.
C13_DeltaParity ==
    (Greeked /\ Returned) =>
        /\ OtherGreeks.err = ""
        /\ IF Degenerate
           THEN QSub(CallGreeksOf.delta, PutGreeksOf.delta) = One
           ELSE Within(QSub(CallGreeksOf.delta, PutGreeksOf.delta),
                       CarryFactor, Q(1, 10000))
        /\ CallGreeksOf.gamma = PutGreeksOf.gamma

\* Greeks of a put a year out at zero volatility, where e^(-q * T) is 0.99:
\* the put's delta is 0 and the call's is 1
C13_Witness ==
    /\ Greeked /\ Returned
    /\ call.option_type = "put"
    /\ call.sigma = Zero /\ call.T = One /\ call.S = Int2Q(110)
    /\ result.delta = Zero
    /\ OtherGreeks.delta = One
    /\ CarryFactor = Q(99, 100)

Scenario == call.op = "run_scenario_analysis"

\* the axes of the grid as the claim gives them
MovePcts    == << -15, -10, -5, 0, 5, 10, 15 >>
RegimeVol   == [iv_crush |-> Q(7, 10), iv_unchanged |-> One,
                iv_expansion |-> Q(13, 10)]
RegimeCells == {"iv_crush", "iv_unchanged", "iv_expansion"}

\* the price of the current call's option at a move of pct percent, the
\* volatility of a regime, and the time T_at
PriceAt(pct, regime, T_at) ==
    gbs_price(call.option_type, QMul(call.S, QAdd(One, Q(pct, 100))), call.K,
              T_at, call.r, call.q, QMul(call.sigma, RegimeVol[regime])).v

C15_ExpansionAboveCrush ==
    (Scenario /\ Returned /\ QLt(Zero, call.sigma)) =>
        \A i \in 1..7 :
            /\ QLt(result.scenario_grid[i].iv_crush,
                   result.scenario_grid[i].iv_unchanged)
            /\ QLt(result.scenario_grid[i].iv_unchanged,
                   result.scenario_grid[i].iv_expansion)

\* C15, amended: for calls and puts, in each of the 7 rows the iv_expansion
\* cell is not lower than the iv_unchanged cell, which is not lower than the
\* iv_crush cell; the three are equal where the price does not depend on
\* the volatility.
C15_ExpansionNotBelowCrush ==
    (Scenario /\ Returned) =>
        \A i \in 1..7 :
            /\ QLe(result.scenario_grid[i].iv_crush,
                   result.scenario_grid[i].iv_unchanged)
            /\ QLe(result.scenario_grid[i].iv_unchanged,
                   result.scenario_grid[i].iv_expansion)

\* a put 30 days ahead whose cells rise with the volatility in the +15% row
C15_Witness ==
    /\ Scenario /\ Returned
    /\ call.option_type = "put" /\ call.sigma = Q(3, 10)
    /\ call.days_forward = 30
    /\ QLt(result.scenario_grid[7].iv_crush,
           result.scenario_grid[7].iv_unchanged)
    /\ QLt(result.scenario_grid[7].iv_unchanged,
           result.scenario_grid[7].iv_expansion)

\* the sum of the four reported entries of a decomposition record
SumOfEntries(e) == QAdd(QAdd(QAdd(e.delta, e.gamma), e.theta), e.vega)

\* the moves of the three decomposition entries as the claim gives them
EntryMove == [minus_5pct |-> Q(-5, 100), flat_0pct |-> Zero,
              plus_5pct |-> Q(5, 100)]

\* the four terms of the entry at a move, from the Greeks the call returns,
\* and the direct reprice
DeltaTerm(move) ==
    QMul(QMul(result.greeks.delta, QMul(call.S, move)),
         Int2Q(call.contracts * 100))
GammaTerm(move) ==
    QMul(QMul(QMul(Q(1, 2), result.greeks.gamma),
              QMul(QMul(call.S, move), QMul(call.S, move))),
         Int2Q(call.contracts * 100))
ThetaTerm == QMul(result.greeks.theta_per_day, Int2Q(call.days_forward))
ExactTerm(move) ==
    QMul(QSub(gbs_price(call.option_type, QMul(call.S, QAdd(One, move)),
                        call.K,
                        FlooredTime(call.T, Q(call.days_forward, 365)),
                        call.r, call.q, call.sigma).v,
              call.entry_price),
         Int2Q(call.contracts * 100))

\* C16 as stated: in each of the three decomposition entries vega is 0,
\* delta is delta * dS * mult, gamma is 0.5 * gamma * dS^2 * mult with
\* dS = S * move, theta is theta_per_day * days_forward (each as reported,
\* to 2 decimals), and the reported total_approx is the sum of the reported
\* delta, gamma, theta and vega.
C16_ApproxIsSumOfReported ==
    (Scenario /\ Returned) =>
        \A l \in DOMAIN EntryMove :
            /\ result.pnl_decomposition[l].vega = Zero
            /\ result.pnl_decomposition[l].delta
                 = Round(DeltaTerm(EntryMove[l]), 2)
            /\ result.pnl_decomposition[l].gamma
                 = Round(GammaTerm(EntryMove[l]), 2)
            /\ result.pnl_decomposition[l].theta = Round(ThetaTerm, 2)
            /\ result.pnl_decomposition[l].total_approx
                 = SumOfEntries(result.pnl_decomposition[l])

\* C16, amended: in each of the three decomposition entries vega is 0;
\* delta, gamma and theta are delta * dS * mult, 0.5 * gamma * dS^2 * mult
\* and theta_per_day * days_forward, each rounded to 2 decimals;
\* total_approx is the sum of the three unrounded terms rounded to 2
\* decimals, which is within 0.02 of the sum of the reported entries;
\* total_exact is the direct reprice at the moved spot and the floored
\* reduced time, minus entry_price, times mult, rounded to 2 decimals.
C16_ApproxIsRoundedSum ==
    (Scenario /\ Returned) =>
        \A l \in DOMAIN EntryMove :
            /\ result.pnl_decomposition[l].vega = Zero
            /\ result.pnl_decomposition[l].delta
                 = Round(DeltaTerm(EntryMove[l]), 2)
            /\ result.pnl_decomposition[l].gamma
                 = Round(GammaTerm(EntryMove[l]), 2)
            /\ result.pnl_decomposition[l].theta = Round(ThetaTerm, 2)
            /\ result.pnl_decomposition[l].total_approx
                 = Round(QAdd(QAdd(DeltaTerm(EntryMove[l]),
                                   GammaTerm(EntryMove[l])), ThetaTerm), 2)
            /\ Within(result.pnl_decomposition[l].total_approx,
                      SumOfEntries(result.pnl_decomposition[l]), Q(2, 100))
            /\ result.pnl_decomposition[l].total_exact
                 = Round(ExactTerm(EntryMove[l]), 2)

\* two calls one day ahead: at -5% the reported total_approx is one cent
\* away from the sum of the reported entries
C16_Witness ==
    /\ Scenario /\ Returned
    /\ call.option_type = "call" /\ call.contracts = 2
    /\ call.days_forward = 1 /\ call.sigma = Q(3, 10)
    /\ result.pnl_decomposition.minus_5pct.total_approx
         # SumOfEntries(result.pnl_decomposition.minus_5pct)
    /\ result.pnl_decomposition.minus_5pct.gamma # Zero

Decomposed == call.op = "pnl_decomposition"

\* the unrounded terms of the current pnl_decomposition call, from the
\* Greeks of its position
PnlGreeks ==
    calculate_greeks(call.option_type, call.S, call.K, call.T, call.r,
                     call.q, call.sigma, call.contracts)
PnlApprox ==
    QAdd(QAdd(QAdd(QMul(QMul(PnlGreeks.delta, call.price_move),
                        Int2Q(call.contracts * 100)),
                   QMul(QMul(QMul(Q(1, 2), PnlGreeks.gamma),
                             QMul(call.price_move, call.price_move)),
                        Int2Q(call.contracts * 100))),
              QMul(PnlGreeks.theta_per_day, Int2Q(call.days_elapsed))),
         QMul(PnlGreeks.vega_per_pct, QMul(call.iv_change_abs, Int2Q(100))))

\* C17 as stated: in every record pnl_decomposition returns, total_approx
\* is the sum of the four breakdown entries and residual is total_exact
\* minus total_approx, all as reported in the record.
C17_ReportedTotalsAdd ==
    (Decomposed /\ Returned) =>
        /\ result.total_approx = SumOfEntries(result.breakdown)
        /\ result.residual = QSub(result.total_exact, result.total_approx)

\* C17, amended: total_approx is the sum of the four unrounded terms
\* rounded to 2 decimals, within 0.02 of the sum of the four reported
\* breakdown entries; residual is within 0.01 of the reported total_exact
\* minus the reported total_approx.
C17_TotalsAddUpToRounding ==
    (Decomposed /\ Returned) =>
        /\ result.total_approx = Round(PnlApprox, 2)
        /\ Within(result.total_approx, SumOfEntries(result.breakdown),
                  Q(2, 100))
        /\ Within(result.residual,
                  QSub(result.total_exact, result.total_approx), Q(1, 100))

\* a record whose total_approx is not the sum of its breakdown and whose
\* residual is not the difference of its totals
C17_Witness ==
    /\ Decomposed /\ Returned
    /\ result.total_approx # SumOfEntries(result.breakdown)
    /\ result.residual # QSub(result.total_exact, result.total_approx)
    /\ result.breakdown.vega # Zero

\* gbs_price at S + price_move, T - days_elapsed / 365 and
\* sigma + iv_change_abs, as they are
UnflooredReprice ==
    gbs_price(call.option_type, QAdd(call.S, call.price_move), call.K,
              QSub(call.T, Q(call.days_elapsed, 365)), call.r, call.q,
              QAdd(call.sigma, call.iv_change_abs))

\* C18: the total_exact that pnl_decomposition reports is (gbs_price at
\* S + price_move, T - days_elapsed / 365 and sigma + iv_change_abs, minus
\* entry_price) times contracts * 100, to the 2 decimals of the report; with
\* sigma + iv_change_abs <= 0 or T - days_elapsed / 365 <= 0 that price is
\* the intrinsic value at S + price_move.
C18_ExactIsUnflooredReprice ==
    (Decomposed /\ Returned) =>
        /\ UnflooredReprice.err = ""
        /\ result.total_exact
             = Round(QMul(QSub(UnflooredReprice.v, call.entry_price),
                          Int2Q(call.contracts * 100)), 2)

\* calculate_greeks on the arguments of the current call, for one contract
OneContract ==
    calculate_greeks(call.option_type, call.S, call.K, call.T, call.r,
                     call.q, call.sigma, 1)

\* n times a one-contract value
Times(n, x) == QMul(Int2Q(n), x)

\* C19 as stated: delta, gamma and option_price for n contracts are those
\* for 1 contract; theta_per_day, vega_per_pct and position_value are n
\* times those for 1 contract, and position_value is
\* option_price * contracts * 100.
C19_ScalesExactly ==
    (Greeked /\ Returned) =>
        /\ OneContract.err = ""
        /\ result.delta = OneContract.delta
        /\ result.gamma = OneContract.gamma
        /\ result.option_price = OneContract.option_price
        /\ result.theta_per_day
             = Times(call.contracts, OneContract.theta_per_day)
        /\ result.vega_per_pct
             = Times(call.contracts, OneContract.vega_per_pct)
        /\ result.position_value
             = Times(call.contracts, OneContract.position_value)
        /\ result.position_value
             = QMul(result.option_price, Int2Q(call.contracts * 100))

\* C19, amended: delta, gamma and option_price for n contracts are those
\* for 1 contract; theta_per_day, vega_per_pct and position_value, each the
\* per-share quantity times contracts * 100 rounded to 2 decimals, are n
\* times those for 1 contract to within 0.005 * (n + 1), and position_value
\* is the unrounded price times contracts * 100 rounded to 2 decimals, which
\* is option_price * contracts * 100 to within 0.005 * (n + 1).
C19_ScalesUpToRounding ==
    (Greeked /\ Returned) =>
        /\ OneContract.err = ""
        /\ result.delta = OneContract.delta
        /\ result.gamma = OneContract.gamma
        /\ result.option_price = OneContract.option_price
        /\ Within(result.theta_per_day,
                  Times(call.contracts, OneContract.theta_per_day),
                  Q(5 * (call.contracts + 1), 1000))
        /\ Within(result.vega_per_pct,
                  Times(call.contracts, OneContract.vega_per_pct),
                  Q(5 * (call.contracts + 1), 1000))
        /\ Within(result.position_value,
                  Times(call.contracts, OneContract.position_value),
                  Q(5 * (call.contracts + 1), 1000))
        /\ result.position_value
             = Round(QMul(gbs_price(call.option_type, call.S, call.K, call.T,
                                    call.r, call.q, call.sigma).v,
                          Int2Q(call.contracts * 100)), 2)
        /\ Within(result.position_value,
                  QMul(result.option_price, Int2Q(call.contracts * 100)),
                  Q(5 * (call.contracts + 1), 1000))

\* two at-the-money calls: a position value one cent away from twice the
\* value of one contract, with the delta of one contract
C19_Witness ==
    /\ Greeked /\ Returned
    /\ call.contracts = 2 /\ call.option_type = "call"
    /\ call.S = Int2Q(100) /\ call.T = Q(1, 4) /\ call.sigma = Q(3, 10)
    /\ result.delta = OneContract.delta
    /\ result.position_value # Times(2, OneContract.position_value)
    /\ QLt(Zero, result.position_value)

----------------------------------------------------------------------------
(* The tool dispatch.                                                      *)

Dispatched == call.op = "dispatch"

\* a structured error: a dict with the one key "error"
ErrorRecord(doc) == DOMAIN doc = {"error"}

\* the keys of a tool's complete result
CompleteKeys(name) ==
    CASE name = "get_underlying_data" ->
             {"ticker", "price", "beta", "dividend_yield", "sector",
              "industry", "risk_free_rate"}
      [] name = "get_option_chain" ->
             {"ticker", "current_price", "strike_range", "chain"}
      [] name = "get_events" -> {"ticker", "events"}
      [] name = "calculate_position_analysis" ->
             {"ticker", "option_type", "strike", "expiry", "contracts",
              "underlying", "greeks", "scenario_grid", "pnl_decomposition",
              "days_forward"}
      [] name = "get_portfolio_greeks" ->
             {"spy_price_used", "summary", "positions"}
      [] name = "calculate_hypothetical_impact" ->
             {"spy_price_used", "new_position", "portfolio"}
      [] name = "calculate_pnl_decomposition" ->
             {"inputs", "breakdown", "total_approx", "total_exact",
              "residual"}
      [] OTHER -> {}

\* the keys a tool reads from its input without a default
RequiredKeys(name) ==
    CASE name \in {"get_underlying_data", "get_option_chain", "get_events"} ->
             {"ticker"}
      [] name = "calculate_position_analysis" ->
             {"option_type", "ticker", "strike", "expiry", "contracts",
              "entry_price", "sigma"}
      [] name = "get_portfolio_greeks" -> {"positions"}
      [] name = "calculate_hypothetical_impact" ->
             {"existing_positions", "new_position"}
      [] name = "calculate_pnl_decomposition" ->
             {"ticker", "expiry", "option_type", "strike", "sigma",
              "contracts", "entry_price"}
      [] OTHER -> {}

\* the input lacks a field the tool needs
MissingField ==
    /\ call.name \in ToolNames
    /\ ~(RequiredKeys(call.name) \subseteq call.tool_input.has)

\* a portfolio tool divides by a SPY price of zero
ZeroSpy ==
    /\ call.live.spy = Zero
    /\ \/ call.name = "calculate_hypothetical_impact"
       \/ /\ call.name = "get_portfolio_greeks"
          /\ "positions" \in call.tool_input.has
          /\ call.tool_input.positions # <<>>

\* what the tool called for returned or raised
ToolOutcome == dispatch_try(call.name, call.tool_input, call.live)

\* C20: dispatch never raises to its caller: what it returns is either the
\* complete result of the tool or the record {"error": message}, and never
\* a part of a result; an unknown tool name, a missing input field, a SPY
\* price of zero and every other exception raised inside a tool give the
\* error record.
C20_DispatchNeverRaises ==
    Dispatched =>
        /\ result.err = ""
        /\ \/ ErrorRecord(result.json)
           \/ /\ call.name \in ToolNames
              /\ DOMAIN result.json = CompleteKeys(call.name)
        /\ call.name \notin ToolNames =>
               result.json = [error |-> "Unknown tool: " \o call.name]
        /\ (call.name \in ToolNames
               /\ (MissingField \/ ZeroSpy \/ call.live.fetch # ""))
              => ErrorRecord(result.json)
        /\ IF ToolOutcome.err # ""
           THEN result.json = [error |-> ToolOutcome.err]
           ELSE result.json = Doc(ToolOutcome)

\* get_portfolio_greeks on a complete position while SPY quotes zero: the
\* division inside aggregate_portfolio_greeks raises and the caller gets
\* the error record
C20_Witness ==
    /\ Dispatched
    /\ call.name = "get_portfolio_greeks"
    /\ call.live.fetch = ""
    /\ call.live.spy = Zero
    /\ call.tool_input.positions = <<ToolOptionLeg("call", {})>>
    /\ "positions" \in call.tool_input.has
    /\ result = [err |-> "", json |-> [error |-> "ZeroDivisionError"]]

----------------------------------------------------------------------------
(* Reduced times.                                                          *)

\* the time of the forward probe of calculate_greeks, T_new of
\* pnl_decomposition and T_fwd of run_scenario_analysis
ProbeTime ==
    IF Greeked THEN FlooredTime(call.T, Q(1, 365))
    ELSE IF Decomposed THEN FlooredTime(call.T, Q(call.days_elapsed, 365))
    ELSE FlooredTime(call.T, Q(call.days_forward, 365))

----------------------------------------------------------------------------
(* Low-priced underlyings.                                                 *)

\* C24: for S > 0, K > 0, T > 0 and sigma > 0 calculate_greeks prices at
\* positive spots only and returns without raising, however low the spot.
C24_PositiveSpotReturns ==
    (/\ Greeked
     /\ QLt(Zero, call.S) /\ QLt(Zero, call.K)
     /\ QLt(Zero, call.T) /\ QLt(Zero, call.sigma))
        => /\ QLt(Zero, QSub(call.S, QMax(QMul(call.S, Q(1, 100)), Q(1, 100))))
           /\ Returned

----------------------------------------------------------------------------
(* The change against the new position in isolation.                       *)

\* the change of the portfolio and the Greeks reported for the new position
Change    == result.portfolio.change
NewGreeks == result.new_position.greeks

\* C25 as stated: each field of the change equals the Greek of the new
\* position reported in isolation, for every existing portfolio.
C25_ChangeIsIsolated ==
    (Hypothetical /\ Returned) =>
        /\ Change.beta_weighted_delta = NewGreeks.bw_delta
        /\ Change.beta_weighted_gamma = NewGreeks.bw_gamma
        /\ Change.total_theta_per_day = NewGreeks.theta_per_day
        /\ Change.total_vega_per_pct = NewGreeks.vega_per_pct

\* C25 amended: the change of total_theta_per_day and total_vega_per_pct
\* equals theta_per_day and vega_per_pct of the new position; the change of
\* beta_weighted_delta and beta_weighted_gamma, differences of totals
\* rounded to 4 and 6 decimals, is within 0.0001 and 0.000001 of bw_delta
\* and bw_gamma.
C25_ChangeIsIsolatedUpToRounding ==
    (Hypothetical /\ Returned) =>
        /\ Within(Change.beta_weighted_delta, NewGreeks.bw_delta, Q(1, 10^4))
        /\ Within(Change.beta_weighted_gamma, NewGreeks.bw_gamma, Q(1, 10^6))
        /\ Change.total_theta_per_day = NewGreeks.theta_per_day
        /\ Change.total_vega_per_pct = NewGreeks.vega_per_pct

\* an option added to a portfolio that holds positions already: the change
\* of the beta-weighted delta is one unit of the fourth decimal away from
\* the option's own bw_delta
C25_Witness ==
    /\ Hypothetical /\ Returned
    /\ Len(caller_positions) > 0
    /\ Change.beta_weighted_delta # NewGreeks.bw_delta
    /\ Change.total_theta_per_day = NewGreeks.theta_per_day
    /\ NewGreeks.theta_per_day # Zero

----------------------------------------------------------------------------
(* The two variants of a position.                                         *)

\* an equity leg with ticker, shares, S and beta, or an option leg with its
\* specification, contracts, ticker and beta
CompleteLeg(pos) ==
    IF IsEquity(pos) THEN {"ticker", "shares", "S", "beta"} \subseteq pos.has
    ELSE (OptionKeys \ {"position_type"}) \subseteq pos.has

\* C26: calculate_hypothetical_impact returns a complete result (isolated
\* Greeks, before, after, change) for a new_position of either variant: an
\* equity leg is accepted as new_position just as an option leg is, and an
\* equity leg among existing_positions is accepted too.
C26_EitherVariantAccepted ==
    (/\ Hypothetical
     /\ QLt(Zero, call.spy_price)
     /\ \A i \in 1..Len(PassedPositions) : CompleteLeg(PassedPositions[i]))
    => /\ Returned
       /\ DOMAIN result.portfolio = {"before", "after", "change"}
       /\ "greeks" \in DOMAIN result.new_position

----------------------------------------------------------------------------
(* The action gate.                                                        *)

Checked      == call.op = "check_action_permission"
Notification == result.v.notification

\* the attempted strategy has risk "undefined" or the context sets
\* is_undefined_risk to true
UndefinedFlag ==
    \/ /\ call.attempted_action \in DOMAIN STRATEGY_GATES
       /\ STRATEGY_GATES[call.attempted_action].risk = "undefined"
    \/ /\ "is_undefined_risk" \in call.context.has
       /\ call.context.is_undefined_risk

\* C21: check_action_permission never blocks: it always returns a record
\* whose notification is null, an advisory or a warning; when the strategy
\* has risk "undefined" or the context has is_undefined_risk true, the
\* notification is a warning at every investor level, advanced included,
\* and also where an advisory would apply.
C21_WarningForUndefinedRisk ==
    Checked =>
        /\ Returned
        /\ DOMAIN result.v = {"attempted_action", "investor_level", "notification"}
        /\ result.v.attempted_action = call.attempted_action
        /\ result.v.investor_level = call.investor_level
        /\ \/ Notification = None
           \/ Notification.level \in {"advisory", "warning"}
        /\ UndefinedFlag =>
               /\ Notification # None
               /\ Notification.level = "warning"
               /\ "gaps" \notin DOMAIN Notification

\* a beginner attempts iron_condor, an advanced strategy, in a context with
\* is_undefined_risk true: the warning, not the advisory
C21_Witness ==
    /\ Checked
    /\ call.investor_level = "beginner"
    /\ call.attempted_action = "iron_condor"
    /\ "is_undefined_risk" \in call.context.has
    /\ call.context.is_undefined_risk
    /\ Notification # None
    /\ Notification.level = "warning"
    /\ Len(Notification.risks) = 3

\* the investor's rank, the strategy's rank and the ranks of the context
\* gates that fire
InvestorRank ==
    IF call.investor_level \in DOMAIN LEVEL_ORDER
    THEN LEVEL_ORDER[call.investor_level] ELSE 0
StrategyRank ==
    IF call.attempted_action \in DOMAIN STRATEGY_GATES
    THEN LEVEL_ORDER[STRATEGY_GATES[call.attempted_action].min_level] ELSE 2
FiredGateRanks ==
    {LEVEL_ORDER[CONTEXT_GATES[i].min_level] :
        i \in {j \in 1..Len(CONTEXT_GATES) :
                  /\ CONTEXT_GATES[j].condition \in
                        {"leg_count", "concurrent_positions",
                         "cross_ticker_count", "has_multiple_expirations"}
                  /\ CONTEXT_GATES[j].condition \in call.context.has
                  /\ Fired(CONTEXT_GATES[j],
                           call.context[CONTEXT_GATES[j].condition])}}
RequiredRank ==
    CHOOSE x \in FiredGateRanks \cup {StrategyRank} :
        \A y \in FiredGateRanks \cup {StrategyRank} : y <= x

\* C22: the notification is null exactly when no undefined-risk flag
\* applies and the investor's rank is at least the maximum of the
\* strategy's min_level rank and the highest min_level rank of a context
\* gate that fires; otherwise, without an undefined-risk flag, it is an
\* advisory that names the level of that maximum.
C22_NullIffLevelSuffices ==
    Checked =>
        /\ Notification = None <=>
               (~UndefinedFlag /\ InvestorRank >= RequiredRank)
        /\ (~UndefinedFlag /\ InvestorRank < RequiredRank) =>
               /\ Notification # None
               /\ Notification.level = "advisory"
               /\ Notification.headline =
                    "This is typically a " \o LevelOfRank(RequiredRank)
                    \o "-level strategy - here's what to keep in mind"

\* an intermediate investor buys calls or puts, a beginner's strategy, with
\* five legs: the leg_count gate alone asks for the advanced level
C22_Witness ==
    /\ Checked
    /\ call.investor_level = "intermediate"
    /\ call.attempted_action = "buy_calls_puts"
    /\ call.context.has = {"leg_count"}
    /\ call.context.leg_count = 5
    /\ Notification # None
    /\ Notification.level = "advisory"
    /\ RequiredRank = 2

\* C29: every advisory has a non-empty gaps list, whether the requirement
\* comes from the strategy gate or from a fired context gate,
\* has_multiple_expirations included.
C29_AdvisoryHasGaps ==
    (Checked /\ Notification # None /\ Notification.level = "advisory") =>
        Notification.gaps # <<>>

\* C30: the record check_action_permission returns carries the fields
\* allowed, required_level and alternatives that the gate step of the demo
\* reads, and the gate step completes without a missing-field error.
C30_DemoFieldsPresent ==
    /\ Checked =>
          {"allowed", "required_level", "alternatives"} \subseteq DOMAIN result.v
    /\ call.op = "demo_gate_flow" => Returned

----------------------------------------------------------------------------
(* The agent loop. *)

Messages == caller_positions
Appended == SubSeq(Messages, Len(call.initial) + 1, Len(Messages))
IsToolUse(block) == block.type = "tool_use"
ToolUses(content) == SelectSeq(content, IsToolUse)
AnswersBlocks(results, content) ==
    /\ Len(results) = Len(ToolUses(content))
    /\ \A j \in 1..Len(results) :
          /\ results[j].type = "tool_result"
          /\ results[j].tool_use_id = ToolUses(content)[j].id
Alternating ==
    \A k \in 1..Len(Appended) :
        IF k % 2 = 1
        THEN Appended[k].role = "assistant"
        ELSE /\ Appended[k].role = "user"
             /\ AnswersBlocks(Appended[k].content, Appended[k - 1].content)
OnlyAppends ==
    /\ Len(caller_positions') >= Len(caller_positions)
    /\ SubSeq(caller_positions', 1, Len(caller_positions)) = caller_positions

\* C27: at every point of run_agent and on return, messages is the caller's
\* initial list followed by alternating assistant and user entries; each
\* user entry holds one tool_result per tool_use block of the assistant
\* entry before it, in order and with that block's id; on return the last
\* entry is an assistant entry; nothing is removed or reordered.
C27_MessagesAlternate ==
    /\ [](/\ SubSeq(Messages, 1, Len(call.initial)) = call.initial
          /\ Alternating
          /\ call.pc = "returned" =>
                (Appended # <<>> /\ Messages[Len(Messages)].role = "assistant"))
    /\ [][OnlyAppends]_vars

\* a run that returned after a turn with two tool calls
C27_Witness ==
    /\ call.pc = "returned"
    /\ Len(Appended) >= 3
    /\ \E k \in 1..Len(Appended) :
          Appended[k].role = "user" /\ Len(Appended[k].content) = 2

DispatchedIn(turn) == SelectSeq(call.dispatched, LAMBDA d : d[1] = turn)
IdsOf(content) == [j \in 1..Len(ToolUses(content)) |-> ToolUses(content)[j].id]
Answered == call.pc = "check"
FinalAnswer == Answered /\ call.response.stop_reason # "tool_use"
ToolAnswer == Answered /\ call.response.stop_reason = "tool_use"

=============================================================================
